---- MODULE Spec2Model ----
\* MyLifeApp server: the in-memory store (MemStorage), the zod insert schemas
\* and the REST handlers of registerRoutes, all in src/server/storage.ts.
EXTENDS Integers, Sequences, FiniteSets, TLC

\* ---------------------------------------------------------------- bounds
\* Number of create requests (all entity types together) a behaviour may hold.
MaxEntities == 2
\* Longest run of consecutive toggles of one task that is counted.
MaxToggles == 2
\* Number of entities the views of the browser create in a behaviour.
MaxViewCreates == 1
\* Number of months the calendar is moved away from the month it starts on.
MaxMonthSteps == 1
\* Number of days the detail view is moved past the day it starts on.
MaxDaySteps == 1

\* ------------------------------------------------------------- JS values
\* Every JavaScript value is a record of one shape, so that any two values
\* can be compared: type is the typeof/class, str the text, num the number.
JUndefined == [type |-> "undefined", str |-> "", num |-> 0]
JNull == [type |-> "null", str |-> "", num |-> 0]
JStr(s) == [type |-> "string", str |-> s, num |-> 0]
JNum(n) == [type |-> "number", str |-> "", num |-> n]
JBool(b) == [type |-> "boolean", str |-> "", num |-> IF b THEN 1 ELSE 0]
JArr(s) == [type |-> "array", str |-> s, num |-> 0]
\* A Date holding a time value (hours since 2024-01-01T00:00Z), and the
\* Invalid Date, whose time value is NaN.
JDate(h) == [type |-> "date", str |-> "", num |-> h]
JInvalidDate == [type |-> "date", str |-> "NaN", num |-> 0]
\* The JSON form of a Date: the string toISOString() gives for time value h.
JIso(h) == [type |-> "string", str |-> "iso", num |-> h]

IsValidDate(v) == v.type = "date" /\ v.str = ""

\* ToBoolean of the language: what `!v` and `v ? a : b` test.
ToBoolean(v) ==
    CASE v.type = "undefined" -> FALSE
      [] v.type = "null" -> FALSE
      [] v.type = "boolean" -> v.num = 1
      [] v.type = "number" -> v.num # 0
      [] v.type = "string" -> ~(v.str = "" /\ v.num = 0)
      [] OTHER -> TRUE

\* obj.key: the value of an own property, undefined when there is none.
Get(obj, key) == IF key \in DOMAIN obj THEN obj[key] ELSE JUndefined

\* { ...a, ...b }: every own key of b, undefined-valued ones included,
\* overrides a.
Spread(a, b) ==
    [k \in (DOMAIN a) \cup (DOMAIN b) |-> IF k \in DOMAIN b THEN b[k] ELSE a[k]]

\* The object with no own property.
EmptyObj == [k \in {} |-> JUndefined]

\* ------------------------------------------------------------------ dates
IsLeapYear(y) == (y % 4 = 0 /\ y % 100 # 0) \/ y % 400 = 0

DaysInMonth(y, m) ==
    CASE m = 2 -> IF IsLeapYear(y) THEN 29 ELSE 28
      [] m \in {4, 6, 9, 11} -> 30
      [] OTHER -> 31

RECURSIVE DaysBeforeMonth(_, _)
DaysBeforeMonth(y, m) ==
    IF m <= 1 THEN 0 ELSE DaysBeforeMonth(y, m - 1) + DaysInMonth(y, m - 1)

RECURSIVE DaysBeforeYear(_)
DaysBeforeYear(y) ==
    IF y <= 2024 THEN 0
    ELSE DaysBeforeYear(y - 1) + (IF IsLeapYear(y - 1) THEN 366 ELSE 365)

\* The texts used as dates in requests, split into their parts. shape is
\* whether the text matches /^\d{4}-\d{2}-\d{2}$/.
DateTexts == {"2024-05-01", "2024-05-02", "2024-02-30", "2024-13-40", "garbage"}

DateParts(s) ==
    CASE s = "2024-05-01" -> [shape |-> TRUE, y |-> 2024, m |-> 5, d |-> 1]
      [] s = "2024-05-02" -> [shape |-> TRUE, y |-> 2024, m |-> 5, d |-> 2]
      [] s = "2024-02-30" -> [shape |-> TRUE, y |-> 2024, m |-> 2, d |-> 30]
      [] s = "2024-13-40" -> [shape |-> TRUE, y |-> 2024, m |-> 13, d |-> 40]
      [] OTHER -> [shape |-> FALSE, y |-> 0, m |-> 0, d |-> 0]

\* /^\d{4}-\d{2}-\d{2}$/.test(s)
MatchesDateShape(s) == DateParts(s).shape

\* new Date(v). A date-only text is read as UTC midnight; the engine accepts
\* months 1..12 and days 1..31 and carries a day past the month's end into
\* the next month; any other text, and undefined, give the Invalid Date.
NewDate(v) ==
    IF v.type = "date" THEN v
    ELSE IF v.type = "string" /\ v.num = 0 /\ DateParts(v.str).shape
    THEN LET p == DateParts(v.str) IN
         IF p.m \in 1..12 /\ p.d \in 1..31
         THEN JDate((DaysBeforeYear(p.y) + DaysBeforeMonth(p.y, p.m) + (p.d - 1))
                    * 24)
         ELSE JInvalidDate
    ELSE IF v.type = "string" /\ v.str = "iso" THEN JDate(v.num)
    ELSE JInvalidDate

\* v.toISOString() raises a RangeError on the Invalid Date and a TypeError on
\* a value that is not a Date.
ToISOStringThrows(v) == ~IsValidDate(v)

\* v.toISOString().split('T')[0]: the UTC calendar day, as a day number.
ISODay(v) == v.num \div 24

\* new Date(v).getTime(); NaN is told apart by TimeIsNaN.
TimeIsNaN(v) == ~IsValidDate(NewDate(v))
GetTime(v) == NewDate(v).num

\* -------------------------------------------------------------- schemas
\* The insert schemas drizzle-zod derives from the tables: id and createdAt
\* are omitted, a notNull column is a required key of its type, a column with
\* a default or without notNull is optional and nullable. A date column is a
\* string to the schema.
Col(kind, required) == [kind |-> kind, required |-> required]

insertDiaryEntrySchema ==
    [date |-> Col("string", TRUE), title |-> Col("string", TRUE),
     content |-> Col("string", TRUE), mood |-> Col("string", TRUE),
     tags |-> Col("array", FALSE)]

insertExpenseSchema ==
    [date |-> Col("string", TRUE), description |-> Col("string", TRUE),
     amount |-> Col("number", TRUE), category |-> Col("string", TRUE)]

insertTaskSchema ==
    [description |-> Col("string", TRUE), dueDate |-> Col("string", TRUE),
     completed |-> Col("boolean", FALSE)]

\* One key of a body against its column: the type must match; null passes
\* only where the column is nullable.
KeyAccepted(col, v) ==
    \/ v.type = col.kind
    \/ v.type = "null" /\ ~col.required

\* schema.parse(body) (partial = FALSE) and schema.partial().parse(body)
\* (partial = TRUE) raise a ZodError exactly when this is FALSE.
ParseAccepts(schema, body, partial) ==
    \A k \in DOMAIN schema :
        IF k \in DOMAIN body THEN KeyAccepted(schema[k], body[k])
        ELSE partial \/ ~schema[k].required

\* ParseResult with the bug "unknown keys pass through" (a schema that is
\* not strict about what it returns).
ParseResult_keepsUnknownKeys(schema, body) == body

\* What parse returns: the keys of the schema the body holds; every other
\* key of the body is stripped.
ParseResult(schema, body) ==
    [k \in (DOMAIN schema) \cap (DOMAIN body) |-> body[k]]

\* ------------------------------------------------------------------ state
VARIABLES
    diaryEntriesMap,  \* MemStorage.diaryEntriesMap: id -> diary entry
    expensesMap,      \* MemStorage.expensesMap: id -> expense
    tasksMap,         \* MemStorage.tasksMap: id -> task
    diaryEntryId,     \* MemStorage.diaryEntryId: the next diary id
    expenseId,        \* MemStorage.expenseId: the next expense id
    taskId,           \* MemStorage.taskId: the next task id
    now,              \* the clock new Date() reads, in hours
    request,          \* the request handled last
    response,         \* the response sent to it
    issued,           \* history: per family, the ids create has returned
    resource,         \* the resource family this behaviour's requests go to
    client,           \* the browser: its query cache and pending callbacks
    pending           \* the handlers suspended at their await, each with
                      \* its request and the response it goes on to send

vars == <<diaryEntriesMap, expensesMap, tasksMap, diaryEntryId, expenseId,
          taskId, now, request, response, issued, resource, client, pending>>

\* The three resource families share no stored state. A behaviour sends its
\* requests to one family ("diary", "expenses" or "tasks"), or to all of
\* them ("all").
Serves(family) == resource \in {family, "all"}

\* ------------------------------------------------------------- Map helpers
\* A Map is a function from its keys. The keys of MemStorage's maps are ids
\* taken from a counter that only grows, and set() on a present key keeps
\* its place, so insertion order is ascending key order.
EmptyMap == [k \in {} |-> EmptyObj]

MapSet(map, key, value) ==
    [k \in (DOMAIN map) \cup {key} |-> IF k = key THEN value ELSE map[k]]

\* Map.delete(key): the map without the key.
MapDelete(map, key) == [k \in (DOMAIN map) \ {key} |-> map[k]]

\* Map.has(key), the value Map.delete(key) returns.
MapHas(map, key) == key \in DOMAIN map

RECURSIVE KeysAscending(_)
KeysAscending(keys) ==
    IF keys = {} THEN <<>>
    ELSE LET m == CHOOSE k \in keys : \A j \in keys : k <= j
         IN <<m>> \o KeysAscending(keys \ {m})

\* Array.from(map.values())
MapValues(map) ==
    LET ks == KeysAscending(DOMAIN map) IN [i \in 1..Len(ks) |-> map[ks[i]]]

\* ------------------------------------------------------------ Array helpers
\* The orders Array.prototype.sort may leave arr in, for a comparator that
\* subtracts time values, ascending or descending. When every time value is
\* a number the sort is stable and the order is unique. When one is NaN the
\* comparator is not consistent and the order is implementation-defined:
\* any arrangement of the elements.
Arrangements(arr) ==
    {p \in [1..Len(arr) -> 1..Len(arr)] :
        \A i, j \in 1..Len(arr) : i # j => p[i] # p[j]}

SortByTime(arr, key, ascending) ==
    LET n == Len(arr)
        t(i) == GetTime(Get(arr[i], key))
        before(i, j) == IF ascending THEN t(i) < t(j) ELSE t(i) > t(j)
        consistent == \A i \in 1..n : ~TimeIsNaN(Get(arr[i], key))
        sorted(p) == \A a, b \in 1..n :
                        a < b => \/ before(p[a], p[b])
                                 \/ t(p[a]) = t(p[b]) /\ p[a] < p[b]
    IN {[i \in 1..n |-> arr[p[i]]] :
            p \in {q \in Arrangements(arr) : ~consistent \/ sorted(q)}}

\* arr.filter(x => x[key].toISOString().split('T')[0] === dateStr)
FilterByDay(arr, key, day) ==
    SelectSeq(arr, LAMBDA x : ISODay(Get(x, key)) = day)

\* arr.find(x => x[key].toISOString().split('T')[0] === dateStr) visits the
\* elements in order and stops at the first one the callback accepts or
\* raises on: the index of that element, 0 when there is none.
FindStop(arr, key, day) ==
    LET stops(i) == \/ ToISOStringThrows(Get(arr[i], key))
                    \/ ISODay(Get(arr[i], key)) = day
    IN IF \E i \in 1..Len(arr) : stops(i)
       THEN CHOOSE i \in 1..Len(arr) :
                stops(i) /\ \A j \in 1..(i - 1) : ~stops(j)
       ELSE 0

\* ------------------------------------------------------- request parameters
Digits == <<"0", "1", "2", "3", "4", "5", "6", "7", "8", "9">>
IsDigit(c) == c \in {"0", "1", "2", "3", "4", "5", "6", "7", "8", "9"}
DigitValue(c) == (CHOOSE i \in 1..Len(Digits) : Digits[i] = c) - 1

RECURSIVE ParseDigits(_, _)
ParseDigits(s, acc) ==
    IF s = <<>> \/ ~IsDigit(Head(s)) THEN acc
    ELSE ParseDigits(Tail(s), acc * 10 + DigitValue(Head(s)))

\* parseInt(s) of a route parameter, given as its characters: the number its
\* leading digits spell (after an optional sign), NaN when it has none.
ParseInt(s) ==
    LET neg == s # <<>> /\ Head(s) = "-"
        rest == IF neg THEN Tail(s) ELSE s
    IN IF rest = <<>> \/ ~IsDigit(Head(rest)) THEN [nan |-> TRUE, n |-> 0]
       ELSE [nan |-> FALSE,
             n |-> IF neg THEN 0 - ParseDigits(rest, 0) ELSE ParseDigits(rest, 0)]

\* The :id parameters requests carry: every id the store can hand out (an
\* id is unknown until it is handed out and again once it is deleted), and a
\* text that is not a number.
IdParams == {<<Digits[i + 1]>> : i \in 1..MaxEntities} \cup {<<"x">>}

\* ----------------------------------------------------------------- bodies
\* The JSON bodies requests carry (POST and PUT alike): full bodies, bodies
\* with some keys only, bodies with keys the schema does not have, and bodies
\* with a value of the wrong type. Amounts are in hundredths.
TaskBodies ==
    { [description |-> JStr("a"), dueDate |-> JStr("2024-05-02"),
       completed |-> JBool(FALSE)],
      [description |-> JStr("a"), dueDate |-> JStr("2024-05-01"),
       completed |-> JBool(TRUE)],
      [description |-> JStr("a"), dueDate |-> JStr("2024-05-01")],
      [completed |-> JBool(TRUE)],
      [description |-> JStr("a"), id |-> JNum(7),
       createdAt |-> JStr("2024-05-02")],
      [description |-> JNum(42), dueDate |-> JStr("2024-05-01")] }

DiaryBodies ==
    { [date |-> JStr("2024-05-01"), title |-> JStr("t1"),
       content |-> JStr("c"), mood |-> JStr("happy"), tags |-> JArr("x")],
      [date |-> JStr("2024-05-02"), title |-> JStr("t1"),
       content |-> JStr("c"), mood |-> JStr("happy"), tags |-> JArr("x")],
      [date |-> JStr("garbage"), title |-> JStr("t1"),
       content |-> JStr("c"), mood |-> JStr("happy"), tags |-> JArr("x")],
      [title |-> JStr("t2")],
      [title |-> JStr("t2"), id |-> JNum(7), createdAt |-> JStr("2024-05-02")],
      [title |-> JNum(42)] }

ExpenseBodies ==
    { [date |-> JStr("2024-05-01"), description |-> JStr("lunch"),
       amount |-> JNum(1250), category |-> JStr("food")],
      [date |-> JStr("2024-05-02"), description |-> JStr("lunch"),
       amount |-> JNum(300), category |-> JStr("food")],
      [date |-> JStr("garbage"), description |-> JStr("lunch"),
       amount |-> JNum(300), category |-> JStr("food")],
      [date |-> JStr("2024-05-01"), description |-> JStr("lunch"),
       amount |-> JNum(0 - 500), category |-> JStr("food")],
      [amount |-> JNum(300)],
      [amount |-> JNum(0 - 500), id |-> JNum(7),
       createdAt |-> JStr("2024-05-02")],
      [amount |-> JStr("12")] }

\* -------------------------------------------------------------- responses
\* res.json(v) writes JSON.stringify(v): a key whose value is undefined is
\* left out, a Date becomes its ISO text and the Invalid Date null.
ToJSON(obj) ==
    [k \in {j \in DOMAIN obj : obj[j].type # "undefined"} |->
        IF obj[k].type = "date"
        THEN (IF IsValidDate(obj[k]) THEN JIso(obj[k].num) ELSE JNull)
        ELSE obj[k]]

\* A response: its status and its body, an object (one element), an array,
\* a { message } or nothing.
JsonObject(status, obj) ==
    [status |-> status, shape |-> "object", body |-> <<ToJSON(obj)>>]
JsonArray(status, arr) ==
    [status |-> status, shape |-> "array",
     body |-> [i \in 1..Len(arr) |-> ToJSON(arr[i])]]
JsonMessage(status) == [status |-> status, shape |-> "message", body |-> <<>>]
EndEmpty(status) == [status |-> status, shape |-> "empty", body |-> <<>>]

\* The request handled: the handler (op), what parseInt made of its :id
\* parameter, the text of its :date parameter and its JSON body (each empty
\* when the request has none), with two history fields: for a toggle that
\* found its task, the task as it was before; and run, the number of toggles
\* of task id handled in a row right after the POST that created it with
\* completed: false (-1 when the requests up to here are no such run).
NoId == [nan |-> TRUE, n |-> 0]
Request(op) ==
    [op |-> op, id |-> NoId, date |-> "", body |-> EmptyObj,
     before |-> <<>>, run |-> -1]

\* Number of entities created so far, all types together.
Created == (diaryEntryId - 1) + (expenseId - 1) + (taskId - 1)

\* A request that changes nothing stored.
NoStoreChange ==
    UNCHANGED <<diaryEntriesMap, expensesMap, tasksMap, diaryEntryId,
                expenseId, taskId, now, issued, resource>>

\* ----------------------------------------------- MemStorage: diary entries
\* createDiaryEntry: the entry stored under the next id.
createDiaryEntry(entry) ==
    Spread(entry, [id |-> JNum(diaryEntryId), createdAt |-> JDate(now)])

\* getDiaryEntryByDate raises when toISOString() does: on an invalid date
\* argument, or on a stored entry visited by find whose date is no valid Date.
getDiaryEntryByDateThrows(date) ==
    \/ ToISOStringThrows(date)
    \/ LET arr == MapValues(diaryEntriesMap)
           i == FindStop(arr, "date", ISODay(date))
       IN i # 0 /\ ToISOStringThrows(Get(arr[i], "date"))

\* getDiaryEntryByDate: the entry found, as a sequence of one, or none.
getDiaryEntryByDate(date) ==
    LET arr == MapValues(diaryEntriesMap)
        i == FindStop(arr, "date", ISODay(date))
    IN IF i = 0 THEN <<>> ELSE <<arr[i]>>

\* getDiaryEntries: the orders it may return the stored entries in.
getDiaryEntries == SortByTime(MapValues(diaryEntriesMap), "date", FALSE)

\* updateDiaryEntry: the merged entry (for a stored id).
updateDiaryEntry(id, entry) == Spread(diaryEntriesMap[id], entry)

\* deleteDiaryEntry: diaryEntriesMap after the call.
deleteDiaryEntry(id) == MapDelete(diaryEntriesMap, id)

\* ----------------------------------------------------------- diary routes
OtherTypesUnchangedByDiary ==
    UNCHANGED <<expensesMap, tasksMap, expenseId, taskId, resource>>

\* GET /api/diary
GetDiary ==
    /\ Serves("diary")
    /\ \E entries \in getDiaryEntries : response' = JsonArray(200, entries)
    /\ request' = Request("GET /api/diary")
    /\ NoStoreChange

\* GET /api/diary/:date
GetDiaryByDate(dateParam) ==
    /\ Serves("diary")
    /\ request' = [Request("GET /api/diary/:date") EXCEPT !.date = dateParam]
    /\ NoStoreChange
    /\ IF ~MatchesDateShape(dateParam) THEN response' = JsonMessage(400)
       ELSE LET date == NewDate(JStr(dateParam)) IN
            IF getDiaryEntryByDateThrows(date) THEN response' = JsonMessage(500)
            ELSE IF getDiaryEntryByDate(date) = <<>>
            THEN response' = JsonMessage(404)
            ELSE response' = JsonObject(200, getDiaryEntryByDate(date)[1])

\* POST /api/diary with the bug "the id is taken before the body is
\* validated".
PostDiary_idBeforeParse(body) ==
    /\ Serves("diary")
    /\ IF ~ParseAccepts(insertDiaryEntrySchema, body, FALSE)
       THEN /\ response' = JsonMessage(400)
            /\ request' = [Request("POST /api/diary") EXCEPT !.body = body]
            /\ diaryEntryId' = diaryEntryId + 1
            /\ UNCHANGED <<diaryEntriesMap, now, issued>>
            /\ UNCHANGED <<expensesMap, tasksMap, expenseId, taskId, resource>>
       ELSE LET validatedData == ParseResult(insertDiaryEntrySchema, body)
                diaryEntry == createDiaryEntry(Spread(validatedData,
                                [date |-> NewDate(Get(validatedData, "date"))]))
            IN /\ Created < MaxEntities
               /\ diaryEntriesMap' = MapSet(diaryEntriesMap, diaryEntryId, diaryEntry)
               /\ diaryEntryId' = diaryEntryId + 1
               /\ now' = now + 1
               /\ response' = JsonObject(201, diaryEntry)
               /\ request' = [Request("POST /api/diary") EXCEPT
                                !.body = body, !.id = [nan |-> FALSE, n |-> diaryEntryId]]
               /\ issued' = [issued EXCEPT !.diary = @ \cup {diaryEntry["id"]}]
               /\ UNCHANGED <<expensesMap, tasksMap, expenseId, taskId, resource>>

\* POST /api/diary, in a store that is to hold at most limit entities.
PostDiaryWithin(body, limit) ==
    /\ Serves("diary")
    /\ IF ~ParseAccepts(insertDiaryEntrySchema, body, FALSE)
       THEN /\ response' = JsonMessage(400)
            /\ request' = [Request("POST /api/diary") EXCEPT !.body = body]
            /\ NoStoreChange
       ELSE LET validatedData == ParseResult(insertDiaryEntrySchema, body)
                diaryEntry == createDiaryEntry(Spread(validatedData,
                                [date |-> NewDate(Get(validatedData, "date"))]))
            IN /\ Created < limit
               /\ diaryEntriesMap' = MapSet(diaryEntriesMap, diaryEntryId, diaryEntry)
               /\ diaryEntryId' = diaryEntryId + 1
               /\ now' = now + 1
               /\ response' = JsonObject(201, diaryEntry)
               /\ request' = [Request("POST /api/diary") EXCEPT
                                !.body = body, !.id = [nan |-> FALSE, n |-> diaryEntryId]]
               /\ issued' = [issued EXCEPT !.diary = @ \cup {diaryEntry["id"]}]
               /\ OtherTypesUnchangedByDiary

\* POST /api/diary
PostDiary(body) == PostDiaryWithin(body, MaxEntities)

\* PUT /api/diary/:id
PutDiary(idParam, body) ==
    LET id == ParseInt(idParam) IN
    /\ Serves("diary")
    /\ request' = [Request("PUT /api/diary/:id") EXCEPT !.id = id, !.body = body]
    /\ IF id.nan \/ ~ParseAccepts(insertDiaryEntrySchema, body, TRUE)
       THEN response' = JsonMessage(400) /\ NoStoreChange
       ELSE LET validatedData == ParseResult(insertDiaryEntrySchema, body)
                date == IF ToBoolean(Get(validatedData, "date"))
                        THEN NewDate(Get(validatedData, "date"))
                        ELSE JUndefined
                patch == Spread(validatedData, [date |-> date])
            IN IF ~MapHas(diaryEntriesMap, id.n)
               THEN response' = JsonMessage(404) /\ NoStoreChange
               ELSE /\ diaryEntriesMap' =
                        MapSet(diaryEntriesMap, id.n, updateDiaryEntry(id.n, patch))
                    /\ response' = JsonObject(200, updateDiaryEntry(id.n, patch))
                    /\ UNCHANGED <<diaryEntryId, now, issued>>
                    /\ OtherTypesUnchangedByDiary

\* DELETE /api/diary/:id
DeleteDiary(idParam) ==
    LET id == ParseInt(idParam) IN
    /\ Serves("diary")
    /\ request' = [Request("DELETE /api/diary/:id") EXCEPT !.id = id]
    /\ IF id.nan THEN response' = JsonMessage(400) /\ NoStoreChange
       ELSE IF ~MapHas(diaryEntriesMap, id.n)
       THEN response' = JsonMessage(404) /\ NoStoreChange
       ELSE /\ diaryEntriesMap' = deleteDiaryEntry(id.n)
            /\ response' = EndEmpty(204)
            /\ UNCHANGED <<diaryEntryId, now, issued>>
            /\ OtherTypesUnchangedByDiary

\* ---------------------------------------------------- MemStorage: expenses
\* createExpense: the expense stored under the next id.
createExpense(expense) ==
    Spread(expense, [id |-> JNum(expenseId), createdAt |-> JDate(now)])

\* getExpensesByDate raises when toISOString() does: on an invalid date
\* argument, or on a stored expense whose date is not a valid Date.
getExpensesByDateThrows(date) ==
    \/ ToISOStringThrows(date)
    \/ \E id \in DOMAIN expensesMap :
           ToISOStringThrows(Get(expensesMap[id], "date"))

getExpensesByDate(date) == FilterByDay(MapValues(expensesMap), "date", ISODay(date))

\* getExpenses: the orders it may return the stored expenses in.
getExpenses == SortByTime(MapValues(expensesMap), "date", FALSE)

\* updateExpense with the bug "the entity is stored again as it was".
updateExpense_ignoresPatch(id, expense) == expensesMap[id]

\* updateExpense: the merged expense (for a stored id).
updateExpense(id, expense) == Spread(expensesMap[id], expense)

\* deleteExpense: expensesMap after the call.
deleteExpense(id) == MapDelete(expensesMap, id)

\* --------------------------------------------------------- expense routes
OtherTypesUnchangedByExpenses ==
    UNCHANGED <<diaryEntriesMap, tasksMap, diaryEntryId, taskId, resource>>

\* GET /api/expenses
GetExpenses ==
    /\ Serves("expenses")
    /\ \E expenses \in getExpenses : response' = JsonArray(200, expenses)
    /\ request' = Request("GET /api/expenses")
    /\ NoStoreChange

\* GET /api/expenses/:date with the bug "no catch": a failure of the
\* storage call escapes the handler and the request is never answered.
GetExpensesByDate_noCatch(dateParam) ==
    /\ Serves("expenses")
    /\ request' = [Request("GET /api/expenses/:date") EXCEPT !.date = dateParam]
    /\ NoStoreChange
    /\ IF ~MatchesDateShape(dateParam) THEN response' = JsonMessage(400)
       ELSE LET date == NewDate(JStr(dateParam)) IN
            IF getExpensesByDateThrows(date) THEN response' = EndEmpty(0)
            ELSE response' = JsonArray(200, getExpensesByDate(date))

\* GET /api/expenses/:date
GetExpensesByDate(dateParam) ==
    /\ Serves("expenses")
    /\ request' = [Request("GET /api/expenses/:date") EXCEPT !.date = dateParam]
    /\ NoStoreChange
    /\ IF ~MatchesDateShape(dateParam) THEN response' = JsonMessage(400)
       ELSE LET date == NewDate(JStr(dateParam)) IN
            IF getExpensesByDateThrows(date) THEN response' = JsonMessage(500)
            ELSE response' = JsonArray(200, getExpensesByDate(date))

\* POST /api/expenses
PostExpense(body) ==
    /\ Serves("expenses")
    /\ IF ~ParseAccepts(insertExpenseSchema, body, FALSE)
       THEN /\ response' = JsonMessage(400)
            /\ request' = [Request("POST /api/expenses") EXCEPT !.body = body]
            /\ NoStoreChange
       ELSE LET validatedData == ParseResult(insertExpenseSchema, body)
                expense == createExpense(Spread(validatedData,
                             [date |-> NewDate(Get(validatedData, "date"))]))
            IN /\ Created < MaxEntities
               /\ expensesMap' = MapSet(expensesMap, expenseId, expense)
               /\ expenseId' = expenseId + 1
               /\ now' = now + 1
               /\ response' = JsonObject(201, expense)
               /\ request' = [Request("POST /api/expenses") EXCEPT
                                !.body = body, !.id = [nan |-> FALSE, n |-> expenseId]]
               /\ issued' = [issued EXCEPT !.expenses = @ \cup {expense["id"]}]
               /\ OtherTypesUnchangedByExpenses

\* PUT /api/expenses/:id
PutExpense(idParam, body) ==
    LET id == ParseInt(idParam) IN
    /\ Serves("expenses")
    /\ request' = [Request("PUT /api/expenses/:id") EXCEPT !.id = id, !.body = body]
    /\ IF id.nan \/ ~ParseAccepts(insertExpenseSchema, body, TRUE)
       THEN response' = JsonMessage(400) /\ NoStoreChange
       ELSE LET validatedData == ParseResult(insertExpenseSchema, body)
                date == IF ToBoolean(Get(validatedData, "date"))
                        THEN NewDate(Get(validatedData, "date"))
                        ELSE JUndefined
                patch == Spread(validatedData, [date |-> date])
            IN IF ~MapHas(expensesMap, id.n)
               THEN response' = JsonMessage(404) /\ NoStoreChange
               ELSE /\ expensesMap' =
                        MapSet(expensesMap, id.n, updateExpense(id.n, patch))
                    /\ response' = JsonObject(200, updateExpense(id.n, patch))
                    /\ UNCHANGED <<expenseId, now, issued>>
                    /\ OtherTypesUnchangedByExpenses

\* DELETE /api/expenses/:id
DeleteExpense(idParam) ==
    LET id == ParseInt(idParam) IN
    /\ Serves("expenses")
    /\ request' = [Request("DELETE /api/expenses/:id") EXCEPT !.id = id]
    /\ IF id.nan THEN response' = JsonMessage(400) /\ NoStoreChange
       ELSE IF ~MapHas(expensesMap, id.n)
       THEN response' = JsonMessage(404) /\ NoStoreChange
       ELSE /\ expensesMap' = deleteExpense(id.n)
            /\ response' = EndEmpty(204)
            /\ UNCHANGED <<expenseId, now, issued>>
            /\ OtherTypesUnchangedByExpenses

\* ------------------------------------------------------- MemStorage: tasks
\* createTask with the bug "the id is the number of stored tasks plus one".
createTask_idFromSize(task) ==
    Spread(task, [id |-> JNum(Cardinality(DOMAIN tasksMap) + 1),
                  createdAt |-> JDate(now)])

\* createTask: the task stored under the next id.
createTask(task) ==
    Spread(task, [id |-> JNum(taskId), createdAt |-> JDate(now)])

\* getTasks: the orders it may return the stored tasks in.
getTasks == SortByTime(MapValues(tasksMap), "dueDate", TRUE)

\* getTasksByDate raises when toISOString() does: on an invalid date
\* argument, or on a stored task whose dueDate is not a valid Date.
getTasksByDateThrows(date) ==
    \/ ToISOStringThrows(date)
    \/ \E id \in DOMAIN tasksMap : ToISOStringThrows(Get(tasksMap[id], "dueDate"))

getTasksByDate(date) == FilterByDay(MapValues(tasksMap), "dueDate", ISODay(date))

\* updateTask: the merged task (for a stored id).
updateTask(id, task) == Spread(tasksMap[id], task)

\* toggleTaskCompletion with the bug "the toggle also moves the due date to
\* the time of the toggle".
toggleTaskCompletion_stampsDueDate(id) ==
    Spread(tasksMap[id],
           [completed |-> JBool(~ToBoolean(Get(tasksMap[id], "completed"))),
            dueDate |-> JDate(now)])

\* toggleTaskCompletion with the bug "completed: true" instead of a flip.
toggleTaskCompletion_setsTrue(id) ==
    Spread(tasksMap[id], [completed |-> JBool(TRUE)])

\* toggleTaskCompletion: the task with !completed (for a stored id).
toggleTaskCompletion(id) ==
    Spread(tasksMap[id],
           [completed |-> JBool(~ToBoolean(Get(tasksMap[id], "completed")))])

\* deleteTask with the bug "clear()" instead of "delete(id)".
deleteTask_clears(id) == EmptyMap

\* deleteTask: tasksMap after the call; its result is MapHas before it.
deleteTask(id) == MapDelete(tasksMap, id)

\* ----------------------------------------------------------- task routes
\* The frame of a task operation with the bug "the expenses are cleared".
OtherTypesUnchangedByTasks_clearsExpenses ==
    /\ expensesMap' = EmptyMap
    /\ UNCHANGED <<diaryEntriesMap, diaryEntryId, expenseId, resource>>

OtherTypesUnchangedByTasks ==
    UNCHANGED <<diaryEntriesMap, expensesMap, diaryEntryId, expenseId, resource>>

\* GET /api/tasks
GetTasks ==
    /\ Serves("tasks")
    /\ \E tasks \in getTasks : response' = JsonArray(200, tasks)
    /\ request' = Request("GET /api/tasks")
    /\ NoStoreChange

\* GET /api/tasks/:date
GetTasksByDate(dateParam) ==
    /\ Serves("tasks")
    /\ request' = [Request("GET /api/tasks/:date") EXCEPT !.date = dateParam]
    /\ NoStoreChange
    /\ IF ~MatchesDateShape(dateParam) THEN response' = JsonMessage(400)
       ELSE LET date == NewDate(JStr(dateParam)) IN
            IF getTasksByDateThrows(date) THEN response' = JsonMessage(500)
            ELSE response' = JsonArray(200, getTasksByDate(date))

\* POST /api/tasks
PostTask(body) ==
    /\ Serves("tasks")
    /\ IF ~ParseAccepts(insertTaskSchema, body, FALSE)
       THEN /\ response' = JsonMessage(400)
            /\ request' = [Request("POST /api/tasks") EXCEPT !.body = body]
            /\ NoStoreChange
       ELSE LET validatedData == ParseResult(insertTaskSchema, body)
                task == createTask(Spread(validatedData,
                           [dueDate |-> NewDate(Get(validatedData, "dueDate"))]))
            IN /\ Created < MaxEntities
               /\ tasksMap' = MapSet(tasksMap, taskId, task)
               /\ taskId' = taskId + 1
               /\ now' = now + 1
               /\ response' = JsonObject(201, task)
               /\ request' = [Request("POST /api/tasks") EXCEPT
                       !.body = body, !.id = [nan |-> FALSE, n |-> taskId],
                       !.run = IF Get(body, "completed") = JBool(FALSE)
                               THEN 0 ELSE -1]
               /\ issued' = [issued EXCEPT !.tasks = @ \cup {task["id"]}]
               /\ OtherTypesUnchangedByTasks

\* PUT /api/tasks/:id
PutTask(idParam, body) ==
    LET id == ParseInt(idParam) IN
    /\ Serves("tasks")
    /\ request' = [Request("PUT /api/tasks/:id") EXCEPT !.id = id, !.body = body]
    /\ IF id.nan \/ ~ParseAccepts(insertTaskSchema, body, TRUE)
       THEN response' = JsonMessage(400) /\ NoStoreChange
       ELSE LET validatedData == ParseResult(insertTaskSchema, body)
                dueDate == IF ToBoolean(Get(validatedData, "dueDate"))
                           THEN NewDate(Get(validatedData, "dueDate"))
                           ELSE JUndefined
                patch == Spread(validatedData, [dueDate |-> dueDate])
            IN IF ~MapHas(tasksMap, id.n)
               THEN response' = JsonMessage(404) /\ NoStoreChange
               ELSE /\ tasksMap' = MapSet(tasksMap, id.n, updateTask(id.n, patch))
                    /\ response' = JsonObject(200, updateTask(id.n, patch))
                    /\ UNCHANGED <<taskId, now, issued>>
                    /\ OtherTypesUnchangedByTasks

\* PATCH /api/tasks/:id/toggle (the body is not read)
ToggleTask(idParam) ==
    LET id == ParseInt(idParam) IN
    /\ Serves("tasks")
    /\ IF id.nan
       THEN /\ response' = JsonMessage(400)
            /\ request' = [Request("PATCH /api/tasks/:id/toggle") EXCEPT !.id = id]
            /\ NoStoreChange
       ELSE IF ~MapHas(tasksMap, id.n)
       THEN /\ response' = JsonMessage(404)
            /\ request' = [Request("PATCH /api/tasks/:id/toggle") EXCEPT !.id = id]
            /\ NoStoreChange
       ELSE /\ tasksMap' = MapSet(tasksMap, id.n, toggleTaskCompletion(id.n))
            /\ response' = JsonObject(200, toggleTaskCompletion(id.n))
            /\ request' = [Request("PATCH /api/tasks/:id/toggle") EXCEPT
                   !.id = id, !.before = <<tasksMap[id.n]>>,
                   !.run = IF request.id = id /\ request.run \in 0..(MaxToggles - 1)
                           THEN request.run + 1 ELSE -1]
            /\ UNCHANGED <<taskId, now, issued>>
            /\ OtherTypesUnchangedByTasks

\* DELETE /api/tasks/:id
DeleteTask(idParam) ==
    LET id == ParseInt(idParam) IN
    /\ Serves("tasks")
    /\ request' = [Request("DELETE /api/tasks/:id") EXCEPT !.id = id]
    /\ IF id.nan THEN response' = JsonMessage(400) /\ NoStoreChange
       ELSE IF ~MapHas(tasksMap, id.n)
       THEN response' = JsonMessage(404) /\ NoStoreChange
       ELSE /\ tasksMap' = deleteTask(id.n)
            /\ response' = EndEmpty(204)
            /\ UNCHANGED <<taskId, now, issued>>
            /\ OtherTypesUnchangedByTasks

\* The :id parameters of the ids the store can hold.
IdParamsAll == {<<Digits[i + 1]>> : i \in 1..MaxEntities}

\* ------------------------------------------------------ the browser's clock
\* The browser reads a Date in local time. Its time zone is a fixed offset,
\* tz hours east of UTC; time values are hours since 2024-01-01T00:00Z, and
\* a day number counts days since 2024-01-01.
Years == 2022..2027

\* The number of leap years before year y, and the day number of January
\* 1st of year y.
LeapYearsBefore(y) == ((y - 1) \div 4) - ((y - 1) \div 100) + ((y - 1) \div 400)
YearStart(y) == 365 * (y - 2024) + LeapYearsBefore(y) - LeapYearsBefore(2024)

\* The number of days of year y before its month m (1..12).
MonthStart(y, m) ==
    <<0, 31, 59, 90, 120, 151, 181, 212, 243, 273, 304, 334>>[m]
        + (IF m > 2 /\ IsLeapYear(y) THEN 1 ELSE 0)

\* The calendar date (month 0..11, as the language counts) of a day number.
Civil(n) ==
    LET y == CHOOSE yy \in Years : YearStart(yy) <= n /\ n < YearStart(yy + 1)
        r == n - YearStart(y)
        m == CHOOSE mm \in 1..12 :
                 /\ MonthStart(y, mm) <= r
                 /\ r < MonthStart(y, mm) + DaysInMonth(y, mm)
    IN [year |-> y, month |-> m - 1, date |-> r - MonthStart(y, m) + 1]

\* date.getFullYear(), getMonth(), getDate(), getDay() and the local hour of
\* time value h in a browser whose zone is tz. 2024-01-01 was a Monday.
LocalDayNumber(h, tz) == (h + tz) \div 24
LocalHours(h, tz) == (h + tz) % 24
GetFullYear(h, tz) == Civil(LocalDayNumber(h, tz)).year
GetMonth(h, tz) == Civil(LocalDayNumber(h, tz)).month
GetDate(h, tz) == Civil(LocalDayNumber(h, tz)).date
GetDay(h, tz) == (LocalDayNumber(h, tz) + 1) % 7

\* The day number of day d of month m (0..11) of year y, where m and d may
\* lie outside the calendar: month 12 is January of the next year, day 0 the
\* last day of the month before.
MakeDay(y, m, d) ==
    LET yy == y + (m \div 12)
        mm == (m % 12) + 1
    IN YearStart(yy) + MonthStart(yy, mm) + (d - 1)

\* new Date(year, month, day): local midnight of that day.
NewLocalDate(y, m, d, tz) == MakeDay(y, m, d) * 24 - tz

\* date.setDate(d) and date.setMonth(m): the local time of day is kept.
SetDate(h, d, tz) ==
    MakeDay(GetFullYear(h, tz), GetMonth(h, tz), d) * 24 + LocalHours(h, tz) - tz
SetMonth(h, m, tz) ==
    MakeDay(GetFullYear(h, tz), m, GetDate(h, tz)) * 24 + LocalHours(h, tz) - tz

\* date.toISOString().split('T')[0] of a valid time value: the UTC calendar
\* day, as a day number (texts YYYY-MM-DD compare as their day numbers do).
ISODateString(h) == h \div 24

\* isSameDay(date1, date2): the same local year, month and day of the month.
isSameDay(h1, h2, tz) ==
    /\ GetFullYear(h1, tz) = GetFullYear(h2, tz)
    /\ GetMonth(h1, tz) = GetMonth(h2, tz)
    /\ GetDate(h1, tz) = GetDate(h2, tz)

\* getDaysInMonth with the bug "the loop over the previous month's days runs
\* from daysFromPrevMonth down to 1".
getDaysInMonth_offByOne(year, month, tz) ==
    LET firstDayOfMonth == NewLocalDate(year, month, 1, tz)
        lastDayOfMonth == NewLocalDate(year, month + 1, 0, tz)
        firstDayOfWeek == GetDay(firstDayOfMonth, tz)
        daysFromPrevMonth == firstDayOfWeek
        prevMonthLastDay == GetDate(NewLocalDate(year, month, 0, tz), tz)
        fromPrev == [k \in 1..daysFromPrevMonth |->
                        NewLocalDate(year, month - 1,
                            prevMonthLastDay - (daysFromPrevMonth - k) - 1, tz)]
        current == [i \in 1..GetDate(lastDayOfMonth, tz) |->
                        NewLocalDate(year, month, i, tz)]
        remainingDays == 42 - (Len(fromPrev) + Len(current))
        fromNext == [i \in 1..remainingDays |->
                        NewLocalDate(year, month + 1, i, tz)]
    IN fromPrev \o current \o fromNext

\* getDaysInMonth(year, month): the dates of the calendar grid.
getDaysInMonth(year, month, tz) ==
    LET firstDayOfMonth == NewLocalDate(year, month, 1, tz)
        lastDayOfMonth == NewLocalDate(year, month + 1, 0, tz)
        firstDayOfWeek == GetDay(firstDayOfMonth, tz)
        daysFromPrevMonth == firstDayOfWeek
        prevMonthLastDay == GetDate(NewLocalDate(year, month, 0, tz), tz)
        fromPrev == [k \in 1..daysFromPrevMonth |->
                        NewLocalDate(year, month - 1,
                            prevMonthLastDay - (daysFromPrevMonth - k), tz)]
        current == [i \in 1..GetDate(lastDayOfMonth, tz) |->
                        NewLocalDate(year, month, i, tz)]
        remainingDays == 42 - (Len(fromPrev) + Len(current))
        fromNext == [i \in 1..remainingDays |->
                        NewLocalDate(year, month + 1, i, tz)]
    IN fromPrev \o current \o fromNext

\* getMonthBoundaries(date): start and end as the UTC days of local midnight
\* of the first and of the last day of date's local month.
getMonthBoundaries(h, tz) ==
    LET year == GetFullYear(h, tz)
        month == GetMonth(h, tz)
        startDate == NewLocalDate(year, month, 1, tz)
        endDate == NewLocalDate(year, month + 1, 0, tz)
    IN [start |-> ISODateString(startDate), end |-> ISODateString(endDate)]

\* getWeekBoundaries(date): start and end as the UTC days of date moved to
\* the Sunday and to the Saturday of its local week, time of day kept.
getWeekBoundaries(h, tz) ==
    LET currentDay == GetDay(h, tz)
        startDate == SetDate(h, GetDate(h, tz) - currentDay, tz)
        endDate == SetDate(h, GetDate(h, tz) + (6 - currentDay), tz)
    IN [start |-> ISODateString(startDate), end |-> ISODateString(endDate)]

\* ---------------------------------------------------------------- browser
\* The state of the browser. AppProvider holds the selected view
\* (currentView), selectedDate and currentMonth (time values); tz is the
\* zone of the browser's clock. The query cache holds, per collection (query
\* keys /api/diary, /api/expenses, /api/tasks): data, the cached list (<<>>
\* while there is none, <<list>> otherwise); due, which says that the entry
\* is to be fetched (it was never fetched, or it was invalidated); fetch, the
\* GET in flight with the answer the server has given to it. settling is
\* the outcome of the mutations whose onSuccess / onError callback has not
\* run yet ("success" as soon as one of them succeeded). entry is the cache
\* entry of DiaryView's query of the selected day (/api/diary, dateString).
NoFetch == [state |-> "idle", reply |-> EndEmpty(0)]

Views == {"diary", "budget", "calendar", "todo"}

\* The browser after AppProvider is constructed at time value h (new Date())
\* in zone tz.
ClientAt(tz, h) ==
    [data |-> [f \in {"diary", "expenses", "tasks"} |-> <<>>],
     due |-> [f \in {"diary", "expenses", "tasks"} |-> TRUE],
     fetch |-> [f \in {"diary", "expenses", "tasks"} |-> NoFetch],
     settling |-> [f \in {"diary", "expenses", "tasks"} |-> "none"],
     entry |-> [data |-> <<>>, due |-> TRUE, fetch |-> NoFetch],
     view |-> "diary",
     selectedDate |-> h,
     currentMonth |-> h,
     tz |-> tz]

ClientInit == ClientAt(0, 0)

\* A step of the browser alone: nothing reaches the server.
ServerUnchanged ==
    UNCHANGED <<diaryEntriesMap, expensesMap, tasksMap, diaryEntryId, expenseId,
                taskId, now, request, response, issued, resource, pending>>

\* useQuery({ queryKey: [key] }): the query function sends GET key, and the
\* server answers it; the answer is on its way to the browser.
FetchCollection(f) ==
    /\ client.due[f]
    /\ client.fetch[f].state = "idle"
    /\ CASE f = "diary" -> GetDiary
         [] f = "expenses" -> GetExpenses
         [] f = "tasks" -> GetTasks
    /\ client' = [client EXCEPT
                    !.fetch[f] = [state |-> "answered", reply |-> response']]
    /\ UNCHANGED pending

\* The answer of a fetch arrives: a 200 becomes the cached list.
FetchCompletes(f) ==
    /\ client.fetch[f].state = "answered"
    /\ client' = [client EXCEPT
                    !.data[f] = IF client.fetch[f].reply.status = 200
                                THEN <<client.fetch[f].reply.body>> ELSE @,
                    !.due[f] = FALSE,
                    !.fetch[f] = NoFetch]
    /\ ServerUnchanged

\* apiRequest(method, url, body) of a mutation: the server has answered it,
\* and the callback is still to run. A status of 200..299 is a success.
MutationAnswered(f) ==
    /\ client' = [client EXCEPT
                    !.settling[f] = IF response'.status \in {200, 201, 204}
                                       \/ @ = "success"
                                    THEN "success" ELSE "error"]
    /\ UNCHANGED pending

\* onSuccess with the bug "no invalidateQueries".
InvalidatedOnSuccess_nothing(f) == {}

\* The collections whose cache entry the onSuccess callback of a mutation
\* of family f invalidates: queryClient.invalidateQueries({ queryKey: [key] }).
InvalidatedOnSuccess(f) ==
    CASE f = "diary" -> {"diary"}
      [] f = "expenses" -> {"expenses"}
      [] f = "tasks" -> {"tasks"}

\* invalidateQueries on the entries of keys: each is marked to be fetched
\* again, and a fetch of it in flight is cancelled (its answer is dropped).
\* The key ['/api/diary'] is a prefix of the key of DiaryView's query.
InvalidateQueries(c, keys) ==
    [c EXCEPT !.due = [k \in DOMAIN @ |-> @[k] \/ k \in keys],
              !.fetch = [k \in DOMAIN @ |-> IF k \in keys THEN NoFetch ELSE @[k]],
              !.entry = IF "diary" \in keys
                        THEN [@ EXCEPT !.due = TRUE, !.fetch = NoFetch]
                        ELSE @]

\* The callbacks with the bug "onError invalidates too".
MutationSettles_invalidatesOnError(f) ==
    /\ client.settling[f] # "none"
    /\ client' = [InvalidateQueries(client, InvalidatedOnSuccess(f))
                  EXCEPT !.settling[f] = "none"]
    /\ ServerUnchanged

\* The callbacks of the mutations of family f run: onSuccess invalidates,
\* onError shows a toast only.
MutationSettles(f) ==
    /\ client.settling[f] # "none"
    /\ client' = [(IF client.settling[f] = "success"
                   THEN InvalidateQueries(client, InvalidatedOnSuccess(f))
                   ELSE client)
                  EXCEPT !.settling[f] = "none"]
    /\ ServerUnchanged

\* The bodies and ids the views send. A view sends the id of an entity of
\* the cached list, which the server may hold no longer.
TaskValues ==
    { [description |-> JStr("a"), dueDate |-> JStr("2024-05-02"),
       completed |-> JBool(FALSE)] }
TaskEditValues == { [description |-> JStr("a"), dueDate |-> JStr("2024-05-01")] }
ExpenseValues ==
    { [date |-> JStr("2024-05-01"), description |-> JStr("lunch"),
       amount |-> JNum(1250), category |-> JStr("food")] }
DiaryValues ==
    { [date |-> JStr("2024-05-01"), title |-> JStr("t1"),
       content |-> JStr("c"), mood |-> JStr("happy"), tags |-> JArr("x")] }

\* `/api/tasks/${task.id}`: the :id parameters of the cached entities.
CachedIdParams(f) ==
    IF client.data[f] = <<>> THEN {}
    ELSE {<<Digits[client.data[f][1][i]["id"].num + 1]>> :
            i \in 1..Len(client.data[f][1])}

\* TodoView and ChatAssistant: createTask, updateTask, toggleTask, deleteTask.
CreateTaskMutation ==
    \E values \in TaskValues :
        /\ Created < MaxViewCreates
        /\ PostTask(values)
        /\ MutationAnswered("tasks")
UpdateTaskMutation ==
    \E id \in CachedIdParams("tasks"), values \in TaskEditValues :
        PutTask(id, values) /\ MutationAnswered("tasks")
ToggleTaskMutation ==
    \E id \in CachedIdParams("tasks") :
        ToggleTask(id) /\ MutationAnswered("tasks")
DeleteTaskMutation ==
    \E id \in CachedIdParams("tasks") :
        DeleteTask(id) /\ MutationAnswered("tasks")

\* BudgetView: createExpense, deleteExpense.
CreateExpenseMutation ==
    \E values \in ExpenseValues :
        /\ Created < MaxViewCreates
        /\ PostExpense(values)
        /\ MutationAnswered("expenses")
DeleteExpenseMutation ==
    \E id \in CachedIdParams("expenses") :
        DeleteExpense(id) /\ MutationAnswered("expenses")

\* DiaryView: saveDiaryEntry, a PUT when the view holds an entry for the
\* selected date and a POST otherwise.
SaveDiaryEntryMutation ==
    \E values \in DiaryValues :
        /\ \/ Created < MaxViewCreates /\ PostDiary(values)
           \/ \E id \in CachedIdParams("diary") : PutDiary(id, values)
        /\ MutationAnswered("diary")

Mutation ==
    \/ CreateTaskMutation
    \/ UpdateTaskMutation
    \/ ToggleTaskMutation
    \/ DeleteTaskMutation
    \/ CreateExpenseMutation
    \/ DeleteExpenseMutation
    \/ SaveDiaryEntryMutation

\* -------------------------------------------------- the views' navigation
\* setSelectedDate(h). DiaryView's query is keyed by the UTC day of the
\* selected date: another day is another cache entry, not fetched yet.
SelectDate(c, h) ==
    [c EXCEPT !.selectedDate = h,
              !.entry = IF ISODateString(h) = ISODateString(c.selectedDate)
                        THEN @
                        ELSE [data |-> <<>>, due |-> TRUE, fetch |-> NoFetch]]

\* setCurrentView with the bug "a change of view selects today again".
SetCurrentView_resetsDate(view) ==
    /\ client' = [client EXCEPT !.view = view,
                                !.selectedDate = ClientInit.selectedDate]
    /\ ServerUnchanged

\* RetroLayout's menu: setCurrentView(item.view).
SetCurrentView(view) ==
    /\ client' = [client EXCEPT !.view = view]
    /\ ServerUnchanged

\* CalendarWidget.handlePrevMonth and handleNextMonth.
handlePrevMonth ==
    /\ client' = [client EXCEPT !.currentMonth =
                     SetMonth(@, GetMonth(@, client.tz) - 1, client.tz)]
    /\ ServerUnchanged

handleNextMonth ==
    /\ client' = [client EXCEPT !.currentMonth =
                     SetMonth(@, GetMonth(@, client.tz) + 1, client.tz)]
    /\ ServerUnchanged

\* CalendarWidget: the grid of the displayed month, and handleDateSelect on
\* the day of its cell i.
days ==
    getDaysInMonth(GetFullYear(client.currentMonth, client.tz),
                   GetMonth(client.currentMonth, client.tz), client.tz)

handleDateSelect(i) ==
    /\ client' = SelectDate(client, days[i])
    /\ ServerUnchanged

\* CalendarDetailView.handlePrevDay and handleNextDay.
handlePrevDay ==
    /\ client.view = "calendar"
    /\ client' = SelectDate(client,
                     SetDate(client.selectedDate,
                             GetDate(client.selectedDate, client.tz) - 1,
                             client.tz))
    /\ ServerUnchanged

handleNextDay ==
    /\ client.view = "calendar"
    /\ client' = SelectDate(client,
                     SetDate(client.selectedDate,
                             GetDate(client.selectedDate, client.tz) + 1,
                             client.tz))
    /\ ServerUnchanged

\* The cells of the grid that are clicked: the first, one of the displayed
\* month, and the last.
GridCells == {1, 15, 42}

\* The number of months between 2024-01 and the local month of h.
MonthIndex(h, tz) == (GetFullYear(h, tz) - 2024) * 12 + GetMonth(h, tz)

\* ---------------------------------------------------------- specification
Init ==
    /\ diaryEntriesMap = EmptyMap
    /\ expensesMap = EmptyMap
    /\ tasksMap = EmptyMap
    /\ diaryEntryId = 1
    /\ expenseId = 1
    /\ taskId = 1
    /\ now = 0
    /\ request = Request("none")
    /\ response = EndEmpty(0)
    /\ issued = [diary |-> {}, expenses |-> {}, tasks |-> {}]
    /\ resource \in {"diary", "expenses", "tasks"}
    /\ client = ClientInit
    /\ pending = <<>>

\* The requests of Spec reach the server from outside the browser: the
\* browser's state stays as it is.
Next ==
    \/ GetDiary /\ UNCHANGED <<client, pending>>
    \/ \E d \in DateTexts : GetDiaryByDate(d) /\ UNCHANGED <<client, pending>>
    \/ \E b \in DiaryBodies : PostDiary(b) /\ UNCHANGED <<client, pending>>
    \/ \E p \in IdParams, b \in DiaryBodies : PutDiary(p, b) /\ UNCHANGED <<client, pending>>
    \/ \E p \in IdParams : DeleteDiary(p) /\ UNCHANGED <<client, pending>>
    \/ GetExpenses /\ UNCHANGED <<client, pending>>
    \/ \E d \in DateTexts : GetExpensesByDate(d) /\ UNCHANGED <<client, pending>>
    \/ \E b \in ExpenseBodies : PostExpense(b) /\ UNCHANGED <<client, pending>>
    \/ \E p \in IdParams, b \in ExpenseBodies : PutExpense(p, b) /\ UNCHANGED <<client, pending>>
    \/ \E p \in IdParams : DeleteExpense(p) /\ UNCHANGED <<client, pending>>
    \/ GetTasks /\ UNCHANGED <<client, pending>>
    \/ \E d \in DateTexts : GetTasksByDate(d) /\ UNCHANGED <<client, pending>>
    \/ \E b \in TaskBodies : PostTask(b) /\ UNCHANGED <<client, pending>>
    \/ \E p \in IdParams, b \in TaskBodies : PutTask(p, b) /\ UNCHANGED <<client, pending>>
    \/ \E p \in IdParams : ToggleTask(p) /\ UNCHANGED <<client, pending>>
    \/ \E p \in IdParams : DeleteTask(p) /\ UNCHANGED <<client, pending>>

Spec == Init /\ [][Next]_vars

\* ------------------------------------------------------------ vocabulary
\* The store: the three maps and the three id counters.
store == <<diaryEntriesMap, expensesMap, tasksMap, diaryEntryId, expenseId, taskId>>

Families == {"diary", "expenses", "tasks"}

MapOf(family) ==
    CASE family = "diary" -> diaryEntriesMap
      [] family = "expenses" -> expensesMap
      [] family = "tasks" -> tasksMap

CounterOf(family) ==
    CASE family = "diary" -> diaryEntryId
      [] family = "expenses" -> expenseId
      [] family = "tasks" -> taskId

PostOp(family) == CASE family = "diary" -> "POST /api/diary"
                    [] family = "expenses" -> "POST /api/expenses"
                    [] family = "tasks" -> "POST /api/tasks"
PutOp(family) == CASE family = "diary" -> "PUT /api/diary/:id"
                   [] family = "expenses" -> "PUT /api/expenses/:id"
                   [] family = "tasks" -> "PUT /api/tasks/:id"
DeleteOp(family) == CASE family = "diary" -> "DELETE /api/diary/:id"
                      [] family = "expenses" -> "DELETE /api/expenses/:id"
                      [] family = "tasks" -> "DELETE /api/tasks/:id"
GetByDateOp(family) == CASE family = "diary" -> "GET /api/diary/:date"
                         [] family = "expenses" -> "GET /api/expenses/:date"
                         [] family = "tasks" -> "GET /api/tasks/:date"
ToggleOp == "PATCH /api/tasks/:id/toggle"

SchemaOf(family) ==
    CASE family = "diary" -> insertDiaryEntrySchema
      [] family = "expenses" -> insertExpenseSchema
      [] family = "tasks" -> insertTaskSchema

\* The name of an entity's date: dueDate for a task.
DateKey(family) == IF family = "tasks" THEN "dueDate" ELSE "date"

\* ------------------------------------------------------------------ C1
\* C1: for each entity type, every create returns an id that no earlier
\* create of that type returned (also when the entity of that id has been
\* deleted since), and no two stored entities of one type have the same id.
C1_StoredIdsDistinct(family) ==
    \A j, k \in DOMAIN MapOf(family) :
        j # k => Get(MapOf(family)[j], "id") # Get(MapOf(family)[k], "id")

C1_CreateReturnsFreshId(family) ==
    CounterOf(family)' # CounterOf(family) =>
        /\ request'.op = PostOp(family)
        /\ response'.status = 201
        /\ response'.body[1]["id"].type = "number"
        /\ response'.body[1]["id"] \notin issued[family]

C1_IdsUniqueNeverReused ==
    [][\A family \in Families :
          C1_CreateReturnsFreshId(family) /\ C1_StoredIdsDistinct(family)']_vars

\* A create answered after an entity of the same type was deleted.
C1_Witness ==
    \E family \in Families :
        /\ request.op = PostOp(family)
        /\ response.status = 201
        /\ Cardinality(DOMAIN MapOf(family)) < Cardinality(issued[family])

\* ------------------------------------------------------------------ C2
\* C2: createdAt is non-null in the entity create returns, and no later
\* request (PUT with any body, toggle) changes the createdAt or the id of an
\* entity that stays stored.
C2_KeptOverStep(family) ==
    \A k \in (DOMAIN MapOf(family)) \cap (DOMAIN MapOf(family)') :
        /\ Get(MapOf(family)'[k], "createdAt") = Get(MapOf(family)[k], "createdAt")
        /\ Get(MapOf(family)'[k], "id") = Get(MapOf(family)[k], "id")

C2_SetAtCreate(family) ==
    (request'.op = PostOp(family) /\ response'.status = 201) =>
        /\ Get(response'.body[1], "createdAt").type \notin {"undefined", "null"}
        /\ IsValidDate(Get(MapOf(family)'[request'.id.n], "createdAt"))

C2_CreatedAtImmutable ==
    [][\A family \in Families :
          C2_KeptOverStep(family) /\ C2_SetAtCreate(family)]_vars

\* A PUT whose body names createdAt and id has updated a stored entity.
C2_Witness ==
    \E family \in Families :
        /\ request.op = PutOp(family)
        /\ response.status = 200
        /\ {"createdAt", "id"} \subseteq DOMAIN request.body

\* ------------------------------------------------------------------ C3
\* C3: toggling a stored task twice in a row leaves the task as it was
\* before the first toggle (the same completed value, the same other
\* fields), whatever completed was when the task was created.
C3_ToggleTwiceRestores ==
    [][(/\ request.op = ToggleOp /\ response.status = 200
        /\ request'.op = ToggleOp /\ response'.status = 200
        /\ request'.id = request.id)
       => tasksMap'[request'.id.n] = request.before[1]]_vars

\* ------------------------------------------------------------------ C4
\* C4: the list GET /api/tasks returns has every incomplete task before
\* every completed one, and its incomplete tasks in ascending due date.
C4_Done(task) == ToBoolean(Get(task, "completed"))

C4_IncompleteFirstByDueDate ==
    (request.op = "GET /api/tasks" /\ response.status = 200) =>
        \A i, j \in 1..Len(response.body) :
            i < j =>
                LET a == response.body[i]
                    b == response.body[j]
                IN /\ ~(C4_Done(a) /\ ~C4_Done(b))
                   /\ (~C4_Done(a) /\ ~C4_Done(b)) =>
                          /\ ~TimeIsNaN(Get(a, "dueDate"))
                          /\ ~TimeIsNaN(Get(b, "dueDate"))
                          /\ GetTime(Get(a, "dueDate")) <= GetTime(Get(b, "dueDate"))

\* ------------------------------------------------------------------ C5
\* C5: a PUT changes exactly the fields its body holds and leaves every
\* other field of the stored entity as it was; a body without the date
\* (dueDate) leaves the stored date as it was.
C5_FieldAfterPut(family, body, old, k) ==
    IF k \in (DOMAIN body) \cap (DOMAIN SchemaOf(family))
    THEN IF k = DateKey(family) THEN NewDate(body[k]) ELSE body[k]
    ELSE Get(old, k)

C5_PutChangesOnlyBodyFields ==
    [][\A family \in Families :
          (request'.op = PutOp(family) /\ response'.status = 200) =>
              LET old == MapOf(family)[request'.id.n]
                  new == MapOf(family)'[request'.id.n]
              IN \A k \in (DOMAIN old) \cup (DOMAIN new) :
                     Get(new, k) = C5_FieldAfterPut(family, request'.body, old, k)]_vars

\* ------------------------------------------------------------------ C6
\* C6: a get-by-date request whose date has the shape dddd-dd-dd but is no
\* calendar date is answered 400, for diary, expenses and tasks alike.
C6_IsCalendarDate(text) ==
    LET p == DateParts(text)
    IN p.shape /\ p.m \in 1..12 /\ p.d \in 1..DaysInMonth(p.y, p.m)

C6_UnrealDateAnswered400 ==
    \A family \in Families :
        (/\ request.op = GetByDateOp(family)
         /\ MatchesDateShape(request.date)
         /\ ~C6_IsCalendarDate(request.date))
        => response.status = 400

\* ------------------------------------------------------------------ C7
\* C7: DELETE of an id that is not stored is answered 404 and changes
\* nothing; DELETE of a stored id is answered 204, removes that entity and
\* leaves every other entity as it was; a second DELETE of the same id
\* right after it is answered 404.
C7_DeleteStep(family) ==
    (request'.op = DeleteOp(family) /\ ~request'.id.nan) =>
        LET id == request'.id.n
            map == MapOf(family)
        IN /\ IF id \in DOMAIN map
              THEN /\ response'.status = 204
                   /\ response'.shape = "empty"
                   /\ DOMAIN MapOf(family)' = (DOMAIN map) \ {id}
                   /\ \A k \in DOMAIN MapOf(family)' : MapOf(family)'[k] = map[k]
                   /\ \A other \in Families \ {family} :
                          MapOf(other)' = MapOf(other)
                   /\ UNCHANGED <<diaryEntryId, expenseId, taskId>>
              ELSE /\ response'.status = 404
                   /\ UNCHANGED store
           /\ (/\ request.op = DeleteOp(family)
               /\ response.status = 204
               /\ request.id = request'.id) => response'.status = 404

C7_DeleteRemovesOnlyItsId ==
    [][\A family \in Families : C7_DeleteStep(family)]_vars

\* A DELETE of an id that was deleted before is answered 404 while another
\* entity of the type is stored.
C7_Witness ==
    \E family \in Families :
        /\ request.op = DeleteOp(family)
        /\ response.status = 404
        /\ JNum(request.id.n) \in issued[family]
        /\ DOMAIN MapOf(family) # {}

\* ------------------------------------------------------------------ C8
\* C8: POST /api/tasks with a valid body whose completed is false is
\* answered 201 with a positive integer id; after n toggles of that task in
\* a row the toggle's answer and the stored task have completed = true
\* exactly when n is odd.
C8_PostThenToggles ==
    /\ (/\ request.op = "POST /api/tasks"
        /\ ParseAccepts(insertTaskSchema, request.body, FALSE)
        /\ Get(request.body, "completed") = JBool(FALSE))
       => /\ response.status = 201
          /\ response.body[1]["id"].type = "number"
          /\ response.body[1]["id"].num >= 1
          /\ request.run = 0
    /\ request.run >= 0 =>
          /\ response.status \in {200, 201}
          /\ Get(response.body[1], "completed") = JBool(request.run % 2 = 1)
          /\ Get(tasksMap[request.id.n], "completed") = JBool(request.run % 2 = 1)

\* Two toggles in a row after the POST have been answered.
C8_Witness == request.op = ToggleOp /\ request.run >= 2

\* ------------------------------------------------------------------ C9
\* C9: a task created without a completed field is stored and returned
\* with completed = false; every stored task has a boolean completed.
C9_CompletedDefaultsFalse ==
    /\ \A id \in DOMAIN tasksMap :
           Get(tasksMap[id], "completed").type = "boolean"
    /\ (/\ request.op = "POST /api/tasks"
        /\ response.status = 201
        /\ "completed" \notin DOMAIN request.body)
       => Get(response.body[1], "completed") = JBool(FALSE)

\* ------------------------------------------------------------------ C10
\* C10: a create or update request whose body fails schema validation is
\* answered 400 and leaves the store (entities and id counters) as it was.
C10_BodyFails(family) ==
    \/ /\ request'.op = PostOp(family)
       /\ ~ParseAccepts(SchemaOf(family), request'.body, FALSE)
    \/ /\ request'.op = PutOp(family)
       /\ ~ParseAccepts(SchemaOf(family), request'.body, TRUE)

C10_RejectedBodyHasNoEffect ==
    [][\A family \in Families :
          C10_BodyFails(family) =>
              /\ response'.status = 400
              /\ UNCHANGED store]_vars

\* A PUT for a stored id was answered 400 because of its body.
C10_Witness ==
    \E family \in Families :
        /\ request.op = PutOp(family)
        /\ response.status = 400
        /\ ~request.id.nan
        /\ request.id.n \in DOMAIN MapOf(family)

\* ------------------------------------------------------------------ C11
\* C11: an update (PUT with a body that passes validation) or a toggle for
\* an id that is not stored is answered 404 and leaves the store as it was,
\* creating nothing under that id; an update for a stored id is answered 200
\* with the merged entity (every field of the body taken over), which is
\* the value now stored under that id, and stores or removes no other id.
C11_UpdateReaches(family) ==
    /\ request'.op = PutOp(family)
    /\ ~request'.id.nan
    /\ ParseAccepts(SchemaOf(family), request'.body, TRUE)

C11_ToggleReaches == request'.op = ToggleOp /\ ~request'.id.nan

C11_Step(family) ==
    LET id == request'.id.n
        old == MapOf(family)
        new == MapOf(family)'
        body == request'.body
    IN /\ (C11_UpdateReaches(family) /\ id \notin DOMAIN old) =>
              response'.status = 404 /\ UNCHANGED store
       /\ (family = "tasks" /\ C11_ToggleReaches /\ id \notin DOMAIN old) =>
              response'.status = 404 /\ UNCHANGED store
       /\ (C11_UpdateReaches(family) /\ id \in DOMAIN old) =>
              /\ response'.status = 200
              /\ response'.shape = "object"
              /\ DOMAIN new = DOMAIN old
              /\ response'.body[1] = ToJSON(new[id])
              /\ Get(new[id], "id") = JNum(id)
              /\ \A k \in (DOMAIN body) \cap (DOMAIN SchemaOf(family)) :
                     Get(new[id], k) = IF k = DateKey(family)
                                       THEN NewDate(body[k]) ELSE body[k]

C12_OnDay(family, text) ==
    {id \in DOMAIN MapOf(family) :
        LET d == Get(MapOf(family)[id], DateKey(family))
        IN IsValidDate(d) /\ ISODay(d) = ISODay(NewDate(JStr(text)))}

C12_ByDateListsThatDay ==
    \A family \in {"expenses", "tasks"} :
        (request.op = GetByDateOp(family) /\ C6_IsCalendarDate(request.date)) =>
            /\ response.status = 200
            /\ response.shape = "array"
            /\ Len(response.body) = Cardinality(C12_OnDay(family, request.date))
            /\ \A id \in C12_OnDay(family, request.date) :
                   \E i \in 1..Len(response.body) :
                       response.body[i] = ToJSON(MapOf(family)[id])

\* ------------------------------------------------------------------ C13
\* C13: GET /api/diary/:date with a calendar date is answered 404 exactly
\* when no stored diary entry has that date, and otherwise 200 with a stored
\* entry of that day.
C13_DiaryByDate404Or200 ==
    (request.op = GetByDateOp("diary") /\ C6_IsCalendarDate(request.date)) =>
        IF C12_OnDay("diary", request.date) = {}
        THEN response.status = 404
        ELSE /\ response.status = 200
             /\ response.shape = "object"
             /\ \E id \in C12_OnDay("diary", request.date) :
                    response.body[1] = ToJSON(diaryEntriesMap[id])

\* ------------------------------------------------------------------ C14
\* C14: every request is answered by one response whose status is 200,
\* 201, 204, 400, 404 or 500 (a JSON value, a { message } or, for 204,
\* nothing); a request whose storage call raises is answered 500.
C14_Statuses == {200, 201, 204, 400, 404, 500}

C14_WellFormed(r) ==
    /\ r.status \in C14_Statuses
    /\ r.status = 200 => r.shape \in {"object", "array"}
    /\ r.status = 201 => r.shape = "object"
    /\ r.status = 204 => r.shape = "empty"
    /\ r.status \in {400, 404, 500} => r.shape = "message"
    /\ r.shape = "object" => Len(r.body) = 1

\* toISOString() is called on a value that is no valid Date: the date of
\* the request, or the date of a stored entity the lookup visits (filter
\* visits every entity, find those up to the first one of the day).
C14_StorageRaises(family, text) ==
    LET arr == MapValues(MapOf(family))
        day == ISODay(NewDate(JStr(text)))
        bad(i) == ~IsValidDate(Get(arr[i], DateKey(family)))
        hit(i) == ~bad(i) /\ ISODay(Get(arr[i], DateKey(family))) = day
    IN \/ ~IsValidDate(NewDate(JStr(text)))
       \/ \E i \in 1..Len(arr) :
              /\ bad(i)
              /\ family = "diary" => \A j \in 1..(i - 1) : ~hit(j)

C14_OneResponseWithKnownStatus ==
    request.op # "none" =>
        /\ C14_WellFormed(response)
        /\ \A family \in Families :
               (/\ request.op = GetByDateOp(family)
                /\ MatchesDateShape(request.date)
                /\ C14_StorageRaises(family, request.date))
               => response.status = 500

\* A get-by-date request for a calendar date was answered 500 because of
\* a stored entity.
C14_Witness ==
    \E family \in Families :
        /\ request.op = GetByDateOp(family)
        /\ C6_IsCalendarDate(request.date)
        /\ response.status = 500

\* ------------------------------------------------------------------ C15
\* A server whose requests go to all three resource families.
InitAll ==
    /\ diaryEntriesMap = EmptyMap
    /\ expensesMap = EmptyMap
    /\ tasksMap = EmptyMap
    /\ diaryEntryId = 1
    /\ expenseId = 1
    /\ taskId = 1
    /\ now = 0
    /\ request = Request("none")
    /\ response = EndEmpty(0)
    /\ issued = [diary |-> {}, expenses |-> {}, tasks |-> {}]
    /\ resource = "all"
    /\ client = ClientInit
    /\ pending = <<>>

\* Its requests are the ones that change the store (create, update, toggle,
\* delete), with the ids the store can hold and, per family, a full body and
\* a partial one.
DiaryBodiesAll ==
    { [date |-> JStr("2024-05-01"), title |-> JStr("t1"),
       content |-> JStr("c"), mood |-> JStr("happy"), tags |-> JArr("x")],
      [title |-> JStr("t2")] }

ExpenseBodiesAll ==
    { [date |-> JStr("2024-05-01"), description |-> JStr("lunch"),
       amount |-> JNum(1250), category |-> JStr("food")],
      [amount |-> JNum(300)] }

TaskBodiesAll ==
    { [description |-> JStr("a"), dueDate |-> JStr("2024-05-02"),
       completed |-> JBool(FALSE)],
      [completed |-> JBool(TRUE)] }

NextAll ==
    \/ \E b \in DiaryBodiesAll : PostDiary(b) /\ UNCHANGED <<client, pending>>
    \/ \E p \in IdParamsAll, b \in DiaryBodiesAll : PutDiary(p, b) /\ UNCHANGED <<client, pending>>
    \/ \E p \in IdParamsAll : DeleteDiary(p) /\ UNCHANGED <<client, pending>>
    \/ \E b \in ExpenseBodiesAll : PostExpense(b) /\ UNCHANGED <<client, pending>>
    \/ \E p \in IdParamsAll, b \in ExpenseBodiesAll : PutExpense(p, b) /\ UNCHANGED <<client, pending>>
    \/ \E p \in IdParamsAll : DeleteExpense(p) /\ UNCHANGED <<client, pending>>
    \/ \E b \in TaskBodiesAll : PostTask(b) /\ UNCHANGED <<client, pending>>
    \/ \E p \in IdParamsAll, b \in TaskBodiesAll : PutTask(p, b) /\ UNCHANGED <<client, pending>>
    \/ \E p \in IdParamsAll : ToggleTask(p) /\ UNCHANGED <<client, pending>>
    \/ \E p \in IdParamsAll : DeleteTask(p) /\ UNCHANGED <<client, pending>>

SpecAll == InitAll /\ [][NextAll]_vars

\* C15: a create, update, toggle or delete request to one entity type
\* leaves the collections and the id counters of the other two types as
\* they were.
C15_OpsOf(family) ==
    {PostOp(family), PutOp(family), DeleteOp(family)}
        \cup (IF family = "tasks" THEN {ToggleOp} ELSE {})

C15_OtherTypesUntouched ==
    [][\A family \in Families :
          request'.op \in C15_OpsOf(family) =>
              \A other \in Families \ {family} :
                  /\ MapOf(other)' = MapOf(other)
                  /\ CounterOf(other)' = CounterOf(other)]_vars

\* A request changed the collection of one type while another type holds
\* an entity.
C15_Witness ==
    \E family \in Families :
        /\ request.op \in C15_OpsOf(family)
        /\ response.status \in {200, 201, 204}
        /\ \E other \in Families \ {family} : DOMAIN MapOf(other) # {}

\* ------------------------------------------------------------------ C16
\* C16: a toggle that finds its task changes the completed field of that
\* task only: its description, dueDate, id and createdAt, every other task
\* and the id counter stay as they were (the handler never reads the body).
C16_ToggleFlipsOnlyCompleted ==
    [][(request'.op = ToggleOp /\ response'.status = 200) =>
          LET id == request'.id.n
              old == tasksMap[id]
              new == tasksMap'[id]
          IN /\ DOMAIN tasksMap' = DOMAIN tasksMap
             /\ \A k \in (DOMAIN tasksMap) \ {id} : tasksMap'[k] = tasksMap[k]
             /\ \A key \in ((DOMAIN old) \cup (DOMAIN new)) \ {"completed"} :
                    /\ key \in DOMAIN old
                    /\ key \in DOMAIN new
                    /\ new[key] = old[key]
             /\ Get(new, "completed") = JBool(~ToBoolean(Get(old, "completed")))
             /\ taskId' = taskId]_vars

\* A toggle was answered 200 while another task is stored.
C16_Witness ==
    /\ request.op = ToggleOp
    /\ response.status = 200
    /\ Cardinality(DOMAIN tasksMap) >= 2

C18_Negative(v) == v.type = "number" /\ v.num < 0

C18_AmountNonNegative ==
    /\ \A id \in DOMAIN expensesMap :
           ~C18_Negative(Get(expensesMap[id], "amount"))
    /\ (/\ request.op \in {PostOp("expenses"), PutOp("expenses")}
        /\ C18_Negative(Get(request.body, "amount")))
       => response.status = 400

\* ------------------------------------------------------------------ C19
\* C19: an expense read back right after the POST that created it, from
\* GET /api/expenses or from GET /api/expenses/:date with the date that was
\* submitted, has the amount, description, category and date that were
\* submitted.
C19_SameDate(submitted, returned) ==
    /\ submitted.type = "string"
    /\ C6_IsCalendarDate(submitted.str)
    /\ returned = JIso(NewDate(submitted).num)

C19_ReadBack(body, id, list) ==
    \E i \in 1..Len(list) :
        /\ Get(list[i], "id") = JNum(id)
        /\ Get(list[i], "amount") = Get(body, "amount")
        /\ Get(list[i], "description") = Get(body, "description")
        /\ Get(list[i], "category") = Get(body, "category")
        /\ C19_SameDate(Get(body, "date"), Get(list[i], "date"))

C19_CreateThenReadRoundTrips ==
    [][(/\ request.op = PostOp("expenses")
        /\ response.status = 201
        /\ \/ request'.op = "GET /api/expenses"
           \/ /\ request'.op = GetByDateOp("expenses")
              /\ JStr(request'.date) = Get(request.body, "date"))
       => /\ response'.status = 200
          /\ C19_ReadBack(request.body, request.id.n, response'.body)]_vars

\* ------------------------------------------------------------------ C20
\* The browser and the server: the browser fetches the collections,
\* answers of fetches arrive, the views send mutations and their callbacks
\* run. A fetch that is due is sent, and an answer or a callback that is
\* pending is handled, sooner or later.
NextClient ==
    \/ \E f \in {"diary", "expenses", "tasks"} : FetchCollection(f)
    \/ \E f \in {"diary", "expenses", "tasks"} : FetchCompletes(f)
    \/ \E f \in {"diary", "expenses", "tasks"} : MutationSettles(f)
    \/ CreateTaskMutation
    \/ UpdateTaskMutation
    \/ ToggleTaskMutation
    \/ DeleteTaskMutation
    \/ CreateExpenseMutation
    \/ DeleteExpenseMutation
    \/ SaveDiaryEntryMutation

SpecClient ==
    /\ Init
    /\ [][NextClient]_vars
    /\ \A f \in {"diary", "expenses", "tasks"} :
           /\ WF_vars(FetchCollection(f))
           /\ WF_vars(FetchCompletes(f))
           /\ WF_vars(MutationSettles(f))

\* C20: the cached collection of a resource changes only when a fetch of
\* that resource completes, and then to the list the server answered (no
\* mutation writes to the cache); a successful mutation invalidates the
\* entry of the collection it changed, so that a cached collection differs
\* from the server's only while a fetch of it is due or a callback is still
\* to run; and once mutations stop, the cached collection of the resource
\* in use equals the server's from some time on.
C20_CacheEqualsServer(f) ==
    /\ client.data[f] # <<>>
    /\ Len(client.data[f][1]) = Cardinality(DOMAIN MapOf(f))
    /\ \A id \in DOMAIN MapOf(f) :
           \E i \in 1..Len(client.data[f][1]) :
               client.data[f][1][i] = ToJSON(MapOf(f)[id])

C20_OnlyFetchWrites ==
    \A f \in Families :
        client'.data[f] # client.data[f] =>
            /\ client.fetch[f].state = "answered"
            /\ client.fetch[f].reply.status = 200
            /\ client'.data[f] = <<client.fetch[f].reply.body>>
            /\ UNCHANGED <<store, request, response>>

C20_StaleOnlyWhileRefetchPending ==
    \A f \in Families :
        (~client.due[f] /\ client.settling[f] # "success") =>
            C20_CacheEqualsServer(f)

C20_CacheFollowsServer ==
    /\ [][C20_OnlyFetchWrites]_vars
    /\ [](C20_StaleOnlyWhileRefetchPending)
    /\ (<>[][~Mutation]_vars) => <>[](C20_CacheEqualsServer(resource))

\* After an entity was created the collection has been fetched and the
\* answer has arrived: the cache holds the server's collection, and no
\* fetch or callback is pending.
C20_Witness ==
    /\ C20_CacheEqualsServer(resource)
    /\ ~client.due[resource]
    /\ client.settling[resource] = "none"
    /\ request.op \in {"GET /api/diary", "GET /api/expenses", "GET /api/tasks"}
    /\ issued[resource] # {}

\* ------------------------------------------------------------------- C30
\* The browser with its navigation: the menu changes the view, the calendar
\* widget moves the displayed month and selects a day of its grid, the
\* collections are fetched, and the view on display creates entities.
NextNav ==
    \/ \E view \in Views : SetCurrentView(view)
    \/ handlePrevMonth
       /\ MonthIndex(client'.currentMonth, client.tz) >= 0 - MaxMonthSteps
    \/ handleNextMonth
       /\ MonthIndex(client'.currentMonth, client.tz) <= MaxMonthSteps
    \/ \E i \in GridCells : handleDateSelect(i)
    \/ \E f \in {"diary", "expenses", "tasks"} : FetchCollection(f)
    \/ \E f \in {"diary", "expenses", "tasks"} : FetchCompletes(f)
    \/ \E f \in {"diary", "expenses", "tasks"} : MutationSettles(f)
    \/ client.view = "todo" /\ CreateTaskMutation
    \/ client.view = "budget" /\ CreateExpenseMutation

SpecNav == Init /\ [][NextNav]_vars

\* C30: the selected view is always one of diary, budget, calendar and todo
\* and starts as diary; from any view every view can be selected in one
\* step; and a step that changes the view leaves the selected date, the
\* selected month and the three cached collections as they are.
C30_ViewChangeKeepsRest ==
    client'.view # client.view =>
        /\ client'.selectedDate = client.selectedDate
        /\ client'.currentMonth = client.currentMonth
        /\ client'.data = client.data

C30_ViewSelector ==
    /\ client.view = "diary"
    /\ [](client.view \in Views)
    /\ [](\A view \in Views : ENABLED SetCurrentView(view))
    /\ [][C30_ViewChangeKeepsRest]_vars

\* The view was changed away from diary while a collection with an entity
\* is cached and another day and month are selected.
C30_Witness ==
    /\ client.view = "todo"
    /\ \E f \in {"diary", "expenses", "tasks"} :
           client.data[f] # <<>> /\ client.data[f][1] # <<>>
    /\ client.selectedDate # ClientInit.selectedDate
    /\ client.currentMonth # ClientInit.currentMonth

\* ------------------------------------------------------------------- C21
\* The browser with its menu and the day buttons of the detail view: the
\* view on display sends the mutations, whatever day is selected.
NextUi ==
    \/ \E view \in Views : SetCurrentView(view)
    \/ handlePrevDay
       /\ LocalDayNumber(client'.selectedDate, client.tz) >= 0
    \/ handleNextDay
       /\ LocalDayNumber(client'.selectedDate, client.tz) <= MaxDaySteps
    \/ \E f \in {"diary", "expenses", "tasks"} : FetchCollection(f)
    \/ \E f \in {"diary", "expenses", "tasks"} : FetchCompletes(f)
    \/ \E f \in {"diary", "expenses", "tasks"} : MutationSettles(f)
    \/ client.view \in {"todo", "calendar"} /\ CreateTaskMutation
    \/ client.view = "todo" /\ UpdateTaskMutation
    \/ client.view \in {"todo", "calendar"} /\ ToggleTaskMutation
    \/ client.view = "todo" /\ DeleteTaskMutation
    \/ client.view = "budget" /\ CreateExpenseMutation
    \/ client.view = "budget" /\ DeleteExpenseMutation
    \/ client.view = "diary" /\ SaveDiaryEntryMutation

SpecUi == Init /\ [][NextUi]_vars

\* C21: a mutation that the server answers 400, 404 or 500 leaves the store
\* of the server, the cached collections and the selected view, date and
\* month as they were; and its onError callback leaves the cache entries
\* (their data, and whether they are to be fetched or being fetched) and the
\* selection as they were too.
C21_SelectionUnchanged ==
    /\ client'.view = client.view
    /\ client'.selectedDate = client.selectedDate
    /\ client'.currentMonth = client.currentMonth

C21_Step ==
    /\ (response'.status \in {400, 404, 500} /\ Mutation) =>
           /\ UNCHANGED store
           /\ client'.data = client.data
           /\ C21_SelectionUnchanged
    /\ \A f \in {"diary", "expenses", "tasks"} :
           (client.settling[f] = "error" /\ MutationSettles(f)) =>
               /\ UNCHANGED store
               /\ client'.data = client.data
               /\ client'.due = client.due
               /\ client'.fetch = client.fetch
               /\ C21_SelectionUnchanged

C21_FailedMutationChangesNothing == [][C21_Step]_vars

\* The to-do view has sent a request for a task of its cached list that the
\* server holds no longer, the answer is 404 and onError is still to run;
\* another day than the first is selected.
C21_Witness ==
    /\ response.status = 404
    /\ request.op \in {"PUT /api/tasks/:id", "PATCH /api/tasks/:id/toggle",
                       "DELETE /api/tasks/:id"}
    /\ client.settling["tasks"] = "error"
    /\ client.view = "todo"
    /\ client.selectedDate # ClientInit.selectedDate
    /\ client.data["tasks"] # <<>>
    /\ client.data["tasks"][1] # <<>>

\* ------------------------------------------------------------------ C22
\* Requests that overlap in time. A route handler runs without interruption
\* from its first statement through the call of the storage method (the
\* methods of MemStorage are async functions that hold no await, so their
\* body is over when the call returns) and is suspended at "await
\* storage...": the response is sent when it resumes. While it is suspended
\* the handlers of other requests run.
MaxPending == 2

\* The handler that has just run is suspended at its await, with the
\* response it goes on to send.
Suspends ==
    /\ Len(pending) < MaxPending
    /\ pending' = Append(pending, [request |-> request', response |-> response'])
    /\ UNCHANGED client

\* The i-th suspended handler resumes and sends its response.
Resumes(i) ==
    /\ i \in 1..Len(pending)
    /\ pending' = SubSeq(pending, 1, i - 1) \o SubSeq(pending, i + 1, Len(pending))
    /\ UNCHANGED <<diaryEntriesMap, expensesMap, tasksMap, diaryEntryId,
                   expenseId, taskId, now, request, response, issued,
                   resource, client>>

\* The overlapping requests: creates of tasks, sent with no completed (a
\* task that has been toggled holds a boolean), and toggles and deletes of
\* tasks.
TaskBodiesOverlap ==
    { [description |-> JStr("a"), dueDate |-> JStr("2024-05-02")] }

NextOverlap ==
    \/ \E b \in TaskBodiesOverlap : PostTask(b) /\ Suspends
    \/ \E p \in IdParamsAll : ToggleTask(p) /\ Suspends
    \/ \E p \in IdParamsAll : DeleteTask(p) /\ Suspends
    \/ \E i \in 1..MaxPending : Resumes(i)

SpecOverlap == InitAll /\ [][NextOverlap]_vars

\* The created entities of the handlers that are suspended together, and
\* of those and the handler that runs next, have different ids per type.
C22_CreatesOf(family) ==
    {i \in 1..Len(pending) : /\ pending[i].request.op = PostOp(family)
                             /\ pending[i].response.status = 201}

C22_DistinctIds ==
    \A family \in {"diary", "tasks"} :
        \A i, j \in C22_CreatesOf(family) :
            i # j => pending[i].response.body[1].id # pending[j].response.body[1].id

\* A toggle of a task runs while the handler of the toggle of the same task
\* that ran just before it is still suspended.
C22_OverlappingToggle ==
    /\ Len(pending) > 0
    /\ pending[Len(pending)].request = request
    /\ request.op = ToggleOp
    /\ response.status = 200
    /\ request'.op = ToggleOp
    /\ response'.status = 200
    /\ request'.id = request.id
    /\ Len(pending') = Len(pending) + 1

C22_ToggleStep ==
    C22_OverlappingToggle =>
        Get(tasksMap'[request'.id.n], "completed")
            = Get(request.before[1], "completed")

\* C22: storage operations of overlapping requests take effect one at a
\* time: two overlapping toggles of a task leave completed at the value it
\* had before the first, and overlapping creates of one type get
\* different ids.
C22_OverlapIsAtomic ==
    /\ []C22_DistinctIds
    /\ [][C22_ToggleStep]_vars

\* The same for a task that holds a boolean completed: the two toggles are
\* applied one after the other and none is lost.
C22_ToggleStepOfBoolean ==
    (C22_OverlappingToggle /\ Get(request.before[1], "completed").type = "boolean")
        => Get(tasksMap'[request'.id.n], "completed")
               = Get(request.before[1], "completed")

C22_NoLostToggle ==
    /\ []C22_DistinctIds
    /\ [][C22_ToggleStepOfBoolean]_vars

\* ------------------------------------------------------------------ C23
\* C23: every stored diary entry, expense and task has a defined date
\* (dueDate), and a get-by-date request with a calendar date is answered 200
\* or 404, never 500.
C23_StoredDatesDefined ==
    /\ \A family \in Families :
           \A id \in DOMAIN MapOf(family) :
               Get(MapOf(family)[id], DateKey(family)).type = "date"
    /\ \A family \in Families :
           (request.op = GetByDateOp(family) /\ C6_IsCalendarDate(request.date))
               => response.status \in {200, 404}

\* ------------------------------------------------------------------ C24
\* A server that holds diary entries only, up to MaxDiaryEntries of them:
\* entries of two days and one whose date text is no date are created,
\* updated with and without a date, and read by date.
MaxDiaryEntries == 3

DiaryBodiesByDate ==
    { [date |-> JStr("2024-05-01"), title |-> JStr("t1"),
       content |-> JStr("c"), mood |-> JStr("happy"), tags |-> JArr("x")],
      [date |-> JStr("garbage"), title |-> JStr("t1"),
       content |-> JStr("c"), mood |-> JStr("happy"), tags |-> JArr("x")] }

DiaryPatchesByDate ==
    { [date |-> JStr("2024-05-01"), title |-> JStr("t2")],
      [date |-> JStr("2024-05-02")],
      [title |-> JStr("t3")] }

DiaryIdParams == {<<Digits[i + 1]>> : i \in 1..MaxDiaryEntries}

NextDiary ==
    \/ \E b \in DiaryBodiesByDate :
          PostDiaryWithin(b, MaxDiaryEntries) /\ UNCHANGED <<client, pending>>
    \/ \E p \in DiaryIdParams, b \in DiaryPatchesByDate :
          PutDiary(p, b) /\ UNCHANGED <<client, pending>>
    \/ \E d \in {"2024-05-01", "2024-05-02"} :
          GetDiaryByDate(d) /\ UNCHANGED <<client, pending>>

SpecDiary == InitAll /\ [][NextDiary]_vars

\* The stored diary entries of the day a text names.
C24_Sharing(text) == C12_OnDay("diary", text)

C24_Min(ids) == CHOOSE id \in ids : \A other \in ids : id <= other

\* C24: a create or an update of a diary entry is not rejected because
\* another entry has its date, and a read by date when several stored
\* entries have that date returns the one of them with the smallest id.
C24_FirstOfSharedDate ==
    /\ (request.op = PostOp("diary")
          /\ ParseAccepts(insertDiaryEntrySchema, request.body, FALSE))
         => response.status = 201
    /\ (request.op = PutOp("diary") /\ ~request.id.nan
          /\ request.id.n \in DOMAIN diaryEntriesMap)
         => response.status = 200
    /\ (request.op = GetByDateOp("diary") /\ Cardinality(C24_Sharing(request.date)) >= 2)
         => /\ response.status = 200
            /\ response.body[1] = ToJSON(diaryEntriesMap[C24_Min(C24_Sharing(request.date))])

\* The same read while every stored entry holds a valid date: find stops at
\* the first entry of the day in the order of the ids.
C24_FirstOfSharedValidDates ==
    (/\ request.op = GetByDateOp("diary")
     /\ Cardinality(C24_Sharing(request.date)) >= 2
     /\ \A id \in DOMAIN diaryEntriesMap : IsValidDate(Get(diaryEntriesMap[id], "date")))
        => /\ response.status = 200
           /\ response.body[1] = ToJSON(diaryEntriesMap[C24_Min(C24_Sharing(request.date))])

\* ------------------------------------------------------------------ C25
\* DiaryView. Its query of the selected day is keyed by dateString, the UTC
\* day of the selected date written as text; the texts are the ones the
\* server's requests use.
ToISODateText(h) ==
    CHOOSE s \in DateTexts :
        LET p == DateParts(s)
        IN /\ p.shape /\ p.m \in 1..12 /\ p.d \in 1..DaysInMonth(p.y, p.m)
           /\ ISODay(NewDate(JStr(s))) = ISODateString(h)

\* useQuery({ queryKey: ['/api/diary', dateString] }): GET
\* /api/diary/:dateString is sent and answered.
FetchDiaryEntry ==
    /\ client.view = "diary"
    /\ client.entry.due
    /\ client.entry.fetch.state = "idle"
    /\ GetDiaryByDate(ToISODateText(client.selectedDate))
    /\ client' = [client EXCEPT
                    !.entry.fetch = [state |-> "answered", reply |-> response']]
    /\ UNCHANGED pending

\* The answer arrives: a 200 becomes diaryEntry; another status is an error
\* of the query, which keeps the data it had.
FetchDiaryEntryCompletes ==
    /\ client.entry.fetch.state = "answered"
    /\ client' = [client EXCEPT
                    !.entry.data = IF client.entry.fetch.reply.status = 200
                                   THEN client.entry.fetch.reply.body ELSE @,
                    !.entry.due = FALSE,
                    !.entry.fetch = NoFetch]
    /\ ServerUnchanged

\* The values of the form: the date field starts as dateString and can be
\* edited to another day.
DiaryFormValues ==
    { [date |-> JStr(d), title |-> JStr("t1"), content |-> JStr("c"),
       mood |-> JStr("neutral"), tags |-> JArr("")] :
        d \in {"2024-05-01", "2024-05-02"} }

\* Save: onSubmit calls saveDiaryEntry(values). The form is on display once
\* the query of the day has settled (isLoading), and the Save button is
\* disabled while a save is pending (isPending), which lasts until onSuccess
\* has awaited the refetch. PUT /api/diary/:id when diaryEntry?.id, POST
\* /api/diary otherwise.
saveDiaryEntry(values) ==
    /\ client.view = "diary"
    /\ ~client.entry.due
    /\ client.entry.fetch.state = "idle"
    /\ client.settling["diary"] = "none"
    /\ IF client.entry.data # <<>> /\ client.entry.data[1]["id"].num # 0
       THEN PutDiary(<<Digits[client.entry.data[1]["id"].num + 1]>>, values)
       ELSE PostDiary(values)
    /\ MutationAnswered("diary")

\* The browser opens on 2024-05-01 at noon UTC, in a zone with no offset.
InitSave ==
    /\ diaryEntriesMap = EmptyMap
    /\ expensesMap = EmptyMap
    /\ tasksMap = EmptyMap
    /\ diaryEntryId = 1
    /\ expenseId = 1
    /\ taskId = 1
    /\ now = 0
    /\ request = Request("none")
    /\ response = EndEmpty(0)
    /\ issued = [diary |-> {}, expenses |-> {}, tasks |-> {}]
    /\ resource = "all"
    /\ client = ClientAt(0, NewDate(JStr("2024-05-01")).num + 12)
    /\ pending = <<>>

NextSave ==
    \/ FetchDiaryEntry
    \/ FetchDiaryEntryCompletes
    \/ \E values \in DiaryFormValues : saveDiaryEntry(values)
    \/ MutationSettles("diary")
    \/ FetchCollection("diary")
    \/ FetchCompletes("diary")

SpecSave == InitSave /\ [][NextSave]_vars

\* No two stored diary entries have the same day.
C25_OneEntryPerDate ==
    \A i, j \in DOMAIN diaryEntriesMap :
        i # j => ISODay(Get(diaryEntriesMap[i], "date"))
                     # ISODay(Get(diaryEntriesMap[j], "date"))

\* A save is a PUT when the view holds an entry of the selected day and a
\* POST when it holds none.
C25_SaveStep ==
    (\E values \in DiaryFormValues : saveDiaryEntry(values)) =>
        request'.op = IF client.entry.data # <<>> THEN PutOp("diary")
                      ELSE PostOp("diary")

\* C25: saves in the diary view keep at most one diary entry per date: a
\* save updates the fetched entry of the selected date when there is one
\* and creates an entry only when there is none.
C25_SavesKeepOneEntryPerDate ==
    /\ []C25_OneEntryPerDate
    /\ [][C25_SaveStep]_vars

\* ------------------------------------------------------------------ C29
\* The calendar by itself. The browser is opened in one of three zones at
\* one of a few instants (the ends and the middle of months, two Februaries,
\* the end of a year), and the user moves the calendar by months, within
\* MaxMonthSteps months of the months of these instants, and clicks days of
\* the grid.
Zones == {-5, 0, 9}

\* The time value of year-month-day, hour o'clock, UTC.
UTC(y, m, d, hour) == MakeDay(y, m - 1, d) * 24 + hour

CalendarInstants ==
    { UTC(2023, 12, 31, 20), UTC(2024, 1, 31, 12), UTC(2024, 2, 29, 23),
      UTC(2024, 5, 1, 1), UTC(2024, 5, 15, 20), UTC(2024, 6, 30, 22),
      UTC(2026, 2, 1, 12) }

InitCalendar ==
    /\ diaryEntriesMap = EmptyMap
    /\ expensesMap = EmptyMap
    /\ tasksMap = EmptyMap
    /\ diaryEntryId = 1
    /\ expenseId = 1
    /\ taskId = 1
    /\ now = 0
    /\ request = Request("none")
    /\ response = EndEmpty(0)
    /\ issued = [diary |-> {}, expenses |-> {}, tasks |-> {}]
    /\ resource = "all"
    /\ client \in {ClientAt(tz, h) : tz \in Zones, h \in CalendarInstants}
    /\ pending = <<>>

NearOpeningMonth(h) ==
    \E h0 \in CalendarInstants :
        LET distance == MonthIndex(h, client.tz) - MonthIndex(h0, client.tz)
        IN distance \in (0 - MaxMonthSteps)..MaxMonthSteps

NextCalendar ==
    \/ handlePrevMonth /\ NearOpeningMonth(client'.currentMonth)
    \/ handleNextMonth /\ NearOpeningMonth(client'.currentMonth)
    \/ \E i \in GridCells : handleDateSelect(i)

SpecCalendar == InitCalendar /\ [][NextCalendar]_vars

\* C29: the grid of the displayed month has 42 dates, each the day after
\* the one before it, the first a Sunday, and every day of the month is in
\* it exactly once.
C29_GridIsSixWeeks ==
    LET tz == client.tz
        year == GetFullYear(client.currentMonth, tz)
        month == GetMonth(client.currentMonth, tz)
        grid == days
        day == [i \in 1..Len(grid) |-> LocalDayNumber(grid[i], tz)]
        civil == {<<i, Civil(day[i])>> : i \in 1..Len(grid)}
        inMonth == {c \in civil : c[2].year = year /\ c[2].month = month}
    IN /\ Len(grid) = 42
       /\ \A i \in 1..41 : day[i + 1] = day[i] + 1
       /\ GetDay(grid[1], tz) = 0
       /\ \A d \in 1..DaysInMonth(year, month + 1) :
              Cardinality({c \in inMonth : c[2].date = d}) = 1

\* The calendar shows a February of 29 days, a month other than the one the
\* browser was opened in.
C29_Witness ==
    /\ GetMonth(client.currentMonth, client.tz) = 1
    /\ GetFullYear(client.currentMonth, client.tz) = 2024
    /\ client.tz = 9
    /\ client.selectedDate \notin CalendarInstants
    /\ GetDate(days[33], client.tz) = 29

\* ------------------------------------------------------------------ C27
\* C27: getMonthBoundaries(selectedDate) is the first and the last day of
\* the selected date's calendar month, and getWeekBoundaries(selectedDate)
\* the Sunday on or before the selected date and the Saturday six days
\* later.
C27_BoundariesOfMonthAndWeek ==
    LET tz == client.tz
        date == client.selectedDate
        year == GetFullYear(date, tz)
        month == GetMonth(date, tz)
        sunday == LocalDayNumber(date, tz) - GetDay(date, tz)
    IN /\ getMonthBoundaries(date, tz).start = MakeDay(year, month, 1)
       /\ getMonthBoundaries(date, tz).end
              = MakeDay(year, month, DaysInMonth(year, month + 1))
       /\ getWeekBoundaries(date, tz).start = sunday
       /\ getWeekBoundaries(date, tz).end = sunday + 6

\* In a browser on UTC the boundaries are these days.
C27_BoundariesInUTC == client.tz = 0 => C27_BoundariesOfMonthAndWeek

\* ------------------------------------------------------------------ C26
\* The calendar detail view and the budget view in a browser of any zone.
\* The browser is opened on 2024-05-01 (UTC) early, at noon or late, which is
\* 2024-04-30, 2024-05-01 or 2024-05-02 on its own clock, and the selected
\* date stays the instant it was opened at.
ZoneInstants == {UTC(2024, 5, 1, 1), UTC(2024, 5, 1, 12), UTC(2024, 5, 1, 22)}

InitZone ==
    /\ diaryEntriesMap = EmptyMap
    /\ expensesMap = EmptyMap
    /\ tasksMap = EmptyMap
    /\ diaryEntryId = 1
    /\ expenseId = 1
    /\ taskId = 1
    /\ now = 0
    /\ request = Request("none")
    /\ response = EndEmpty(0)
    /\ issued = [diary |-> {}, expenses |-> {}, tasks |-> {}]
    /\ resource = "all"
    /\ client \in {ClientAt(tz, h) : tz \in Zones, h \in ZoneInstants}
    /\ pending = <<>>

\* CalendarDetailView: createTaskMutation sends dueDate: dateString.
createTaskMutation ==
    /\ client.view = "calendar"
    /\ PostTask([description |-> JStr("a"),
                 dueDate |-> JStr(ToISODateText(client.selectedDate)),
                 completed |-> JBool(FALSE)])
    /\ MutationAnswered("tasks")

\* CalendarDetailView: todayTasks, the cached tasks whose due date is the
\* selected date's day on the browser's clock.
todayTasks ==
    IF client.data["tasks"] = <<>> THEN <<>>
    ELSE SelectSeq(client.data["tasks"][1],
                   LAMBDA task : isSameDay(GetTime(task["dueDate"]),
                                           client.selectedDate, client.tz))

\* BudgetView: createExpense sends the values of the form, whose date field
\* starts as dateString and can be edited.
ExpenseFormValues ==
    { [date |-> JStr(d), description |-> JStr("lunch"), amount |-> JNum(a),
       category |-> JStr("food")] :
        d \in {"2024-05-01", "2024-05-02"}, a \in {300} }

BudgetViewCreateExpense(values) ==
    /\ client.view = "budget"
    /\ PostExpense(values)
    /\ MutationAnswered("expenses")

\* BudgetView: the cached expenses of the selected day, of its week and of
\* its month, and their totals.
ExpenseDay(expense) == ISODateString(GetTime(expense["date"]))

CachedExpenses ==
    IF client.data["expenses"] = <<>> THEN <<>> ELSE client.data["expenses"][1]

todayExpenses ==
    SelectSeq(CachedExpenses,
              LAMBDA expense :
                  ExpenseDay(expense) = ISODateString(client.selectedDate))

weekExpenses ==
    LET week == getWeekBoundaries(client.selectedDate, client.tz)
    IN SelectSeq(CachedExpenses,
                 LAMBDA expense : /\ ExpenseDay(expense) >= week.start
                                  /\ ExpenseDay(expense) <= week.end)

monthExpenses ==
    LET month == getMonthBoundaries(client.selectedDate, client.tz)
    IN SelectSeq(CachedExpenses,
                 LAMBDA expense : /\ ExpenseDay(expense) >= month.start
                                  /\ ExpenseDay(expense) <= month.end)

RECURSIVE Total(_)
Total(list) ==
    IF list = <<>> THEN 0 ELSE Head(list)["amount"].num + Total(Tail(list))

todayTotal == Total(todayExpenses)
weeklyTotal == Total(weekExpenses)
monthlyTotal == Total(monthExpenses)

NextZone ==
    \/ \E view \in {"calendar", "budget"} : SetCurrentView(view)
    \/ createTaskMutation
    \/ \E values \in ExpenseFormValues : BudgetViewCreateExpense(values)
    \/ \E f \in {"expenses", "tasks"} : FetchCollection(f)
    \/ \E f \in {"expenses", "tasks"} : FetchCompletes(f)
    \/ \E f \in {"expenses", "tasks"} : MutationSettles(f)

SpecZone == InitZone /\ [][NextZone]_vars

\* The cache of a collection holds the answer of a fetch made after the
\* last mutation.
C26_Refetched(f) ==
    /\ client.data[f] # <<>>
    /\ ~client.due[f]
    /\ client.fetch[f].state = "idle"
    /\ client.settling[f] = "none"

\* C26: once the tasks are refetched, the calendar detail view lists every
\* task that was created from it for the selected day.
C26_CreatedTaskIsListed ==
    (client.view = "calendar" /\ C26_Refetched("tasks"))
        => Len(todayTasks) = Len(client.data["tasks"][1])

\* ------------------------------------------------------------------ C28
\* C28: in the budget view every expense of today's total is in the weekly
\* and in the monthly total, and today's total is at most each of them.
C28_Sublist(a, b) == \A i \in 1..Len(a) : \E j \in 1..Len(b) : a[i] = b[j]

C28_TodayWithinWeekAndMonth ==
    client.view = "budget" =>
        /\ C28_Sublist(todayExpenses, weekExpenses)
        /\ C28_Sublist(todayExpenses, monthExpenses)
        /\ todayTotal <= weeklyTotal
        /\ todayTotal <= monthlyTotal

\* The weekly total by itself has every expense of today's total.
C28_TodayWithinWeek ==
    client.view = "budget" =>
        /\ C28_Sublist(todayExpenses, weekExpenses)
        /\ todayTotal <= weeklyTotal

====
